---- MODULE Spec2Model ----
(***************************************************************************)
(* Model of the OHLCV streaming CSV parser (InternalStateMachineCore, its  *)
(* full-string and stream wrappers, and the date normalizer).              *)
(*                                                                         *)
(* A text is a sequence of one-character strings.  A parsed number is a    *)
(* record [nan, val]: val holds the value in units of 10^-FracDigits for   *)
(* parseFloat and the integer itself for parseInt.                         *)
(***************************************************************************)
EXTENDS Integers, Sequences, FiniteSets, TLC

\* ------------------------------------------------------------------ bounds
\* number of data lines of an input text
MaxLines == 3
\* largest number of characters handed over in one chunk
MaxChunk == 3
\* fractional digits kept of a parsed real number
FracDigits == 2
\* number of concurrent sessions
MaxSessions == 2
\* the callbacks of a session throw at a call up to this one, or never
MaxThrowAt == 1

\* ------------------------------------------------------- program constants
EXPECTED_FIELDS == 6

\* --------------------------------------------------------------- characters
LF == "\n"
CR == "\r"
COMMA == ","
SP == " "

Digits == {"0", "1", "2", "3", "4", "5", "6", "7", "8", "9"}

DigitVal(ch) ==
  CASE ch = "0" -> 0 [] ch = "1" -> 1 [] ch = "2" -> 2 [] ch = "3" -> 3
    [] ch = "4" -> 4 [] ch = "5" -> 5 [] ch = "6" -> 6 [] ch = "7" -> 7
    [] ch = "8" -> 8 [] ch = "9" -> 9

\* String.prototype.toLowerCase on one character (letters of the alphabet used)
toLowerCase(ch) ==
  CASE ch = "D" -> "d" [] ch = "A" -> "a" [] ch = "T" -> "t" [] ch = "E" -> "e"
    [] ch = "O" -> "o" [] ch = "X" -> "x"
    [] OTHER -> ch

\* characters String.prototype.trim removes
IsWhite(ch) == ch \in {SP, "\t", LF, CR}

RECURSIVE trimStart(_)
trimStart(s) ==
  IF s # <<>> /\ IsWhite(Head(s)) THEN trimStart(Tail(s)) ELSE s

RECURSIVE trimEnd(_)
trimEnd(s) ==
  IF s # <<>> /\ IsWhite(s[Len(s)]) THEN trimEnd(SubSeq(s, 1, Len(s) - 1)) ELSE s

trim(s) == trimEnd(trimStart(s))

\* fieldValue.toLowerCase().includes("date")
\* includesDate without the conversion to lower case
includesDateAsWritten(s) ==
  \E i \in 1..(Len(s) - 3) :
    s[i] = "d" /\ s[i + 1] = "a" /\ s[i + 2] = "t" /\ s[i + 3] = "e"

includesDate(s) ==
  \E i \in 1..(Len(s) - 3) :
    /\ toLowerCase(s[i]) = "d"
    /\ toLowerCase(s[i + 1]) = "a"
    /\ toLowerCase(s[i + 2]) = "t"
    /\ toLowerCase(s[i + 3]) = "e"

\* line.replace(/,/g, "")
RECURSIVE removeCommas(_)
removeCommas(s) ==
  IF s = <<>> THEN <<>>
  ELSE IF Head(s) = COMMA THEN removeCommas(Tail(s))
  ELSE <<Head(s)>> \o removeCommas(Tail(s))

RECURSIVE Pow10(_)
Pow10(n) == IF n = 0 THEN 1 ELSE 10 * Pow10(n - 1)

\* ------------------------------------------------------------ number parsing
NaN == [nan |-> TRUE, val |-> 0]
Num(v) == [nan |-> FALSE, val |-> v]

\* length of the longest prefix of s made of digits
RECURSIVE digitRun(_)
digitRun(s) ==
  IF s # <<>> /\ Head(s) \in Digits THEN 1 + digitRun(Tail(s)) ELSE 0

\* value of a sequence of digits
RECURSIVE digitsValue(_)
digitsValue(s) ==
  IF s = <<>> THEN 0 ELSE 10 * digitsValue(SubSeq(s, 1, Len(s) - 1)) + DigitVal(s[Len(s)])

\* the first FracDigits digits of a fraction, right-padded with zeros
fracValue(s) ==
  LET k == IF Len(s) < FracDigits THEN Len(s) ELSE FracDigits
  IN  digitsValue(SubSeq(s, 1, k)) * Pow10(FracDigits - k)

\* a numeral without its sign; s0 has no leading white space
unsigned(s0) == IF s0 # <<>> /\ Head(s0) \in {"-", "+"} THEN Tail(s0) ELSE s0

\* the number x read from the numeral s0, with the sign of s0
signed(s0, x) ==
  IF x.nan \/ s0 = <<>> \/ Head(s0) # "-" THEN x ELSE Num(0 - x.val)

\* the longest prefix of s1 that is a run of digits, as a number
integerPrefix(s1) ==
  IF digitRun(s1) = 0 THEN NaN ELSE Num(digitsValue(SubSeq(s1, 1, digitRun(s1))))

\* the digits that follow a leading decimal point of rest
fraction(rest) ==
  IF rest # <<>> /\ Head(rest) = "."
    THEN SubSeq(Tail(rest), 1, digitRun(Tail(rest)))
    ELSE <<>>

\* the number with integer digits ds and fraction digits fr
decimalOf(ds, fr) ==
  IF ds = <<>> /\ fr = <<>> THEN NaN
  ELSE Num(digitsValue(ds) * Pow10(FracDigits) + fracValue(fr))

\* the longest prefix of s1 that is a decimal literal digits[.digits] or
\* .digits, as a number
decimalPrefix(s1) ==
  decimalOf(SubSeq(s1, 1, digitRun(s1)),
            fraction(SubSeq(s1, digitRun(s1) + 1, Len(s1))))

\* parseInt(s, 10): leading white space, an optional sign, the longest run of
\* digits; NaN when there is no digit
parseInt(str) == signed(trimStart(str), integerPrefix(unsigned(trimStart(str))))

\* parseFloat(s): leading white space, an optional sign, the longest prefix
\* that is a decimal literal; NaN when there is none.  (Exponents and
\* "Infinity" do not occur in the texts of the model.)
parseFloat(str) == signed(trimStart(str), decimalPrefix(unsigned(trimStart(str))))

\* -------------------------------------------------------------- date.ts
isLeap(y) == (y % 4 = 0 /\ y % 100 # 0) \/ y % 400 = 0

daysInMonth(y, m) ==
  CASE m \in {1, 3, 5, 7, 8, 10, 12} -> 31
    [] m \in {4, 6, 9, 11} -> 30
    [] OTHER -> IF isLeap(y) THEN 29 ELSE 28

RECURSIVE daysBeforeYear(_)
daysBeforeYear(y) ==
  IF y <= 1970 THEN 0
  ELSE daysBeforeYear(y - 1) + (IF isLeap(y - 1) THEN 366 ELSE 365)

RECURSIVE daysBeforeMonth(_, _)
daysBeforeMonth(y, m) ==
  IF m <= 1 THEN 0 ELSE daysBeforeMonth(y, m - 1) + daysInMonth(y, m - 1)

\* Date.UTC(year, month - 1, day) in days since the epoch, for year >= 1970:
\* a day beyond the end of the month runs over into the following month
dateUTCDays(y, m, d) == daysBeforeYear(y) + daysBeforeMonth(y, m) + (d - 1)

\* getUTCFullYear / getUTCMonth + 1 / getUTCDate of a day count
RECURSIVE civilYear(_, _)
civilYear(days, y) ==
  LET len == IF isLeap(y) THEN 366 ELSE 365
  IN  IF days >= len THEN civilYear(days - len, y + 1) ELSE <<y, days>>

RECURSIVE civilMonth(_, _, _)
civilMonth(y, days, m) ==
  IF days >= daysInMonth(y, m) THEN civilMonth(y, days - daysInMonth(y, m), m + 1)
  ELSE <<m, days + 1>>

civilFromDays(days) ==
  LET yd == civilYear(days, 1970)
      md == civilMonth(yd[1], yd[2], 1)
  IN  <<yd[1], md[1], md[2]>>

\* /^\d{4}-\d{2}-\d{2}$/.test(dateStr)
matchesDatePattern(s) ==
  /\ Len(s) = 10
  /\ \A i \in {1, 2, 3, 4, 6, 7, 9, 10} : s[i] \in Digits
  /\ s[5] = "-"
  /\ s[8] = "-"

\* the seconds of midnight in a zone one hour east of UTC
DateOkLocal(v) == [err |-> "none", val |-> v - 3600]

\* return Math.floor(date.getTime() / 1000)
DateOk(v) == [err |-> "none", val |-> v]
DateErr(e) == [err |-> e, val |-> 0]

\* yyyymmddToUnix that tests the ranges of month and day before the year
yyyymmddToUnixRangesFirst(dateStr) ==
  IF ~matchesDatePattern(dateStr) THEN DateErr("InvalidDateFormatError")
  ELSE IF digitsValue(SubSeq(dateStr, 6, 7)) \notin 1..12
            \/ digitsValue(SubSeq(dateStr, 9, 10)) \notin 1..31
    THEN DateErr("InvalidDateFormatError")
  ELSE IF digitsValue(SubSeq(dateStr, 1, 4)) < 1970 THEN DateErr("DateBeforeEpochError")
  ELSE IF civilFromDays(dateUTCDays(digitsValue(SubSeq(dateStr, 1, 4)),
                                    digitsValue(SubSeq(dateStr, 6, 7)),
                                    digitsValue(SubSeq(dateStr, 9, 10))))
            # << digitsValue(SubSeq(dateStr, 1, 4)), digitsValue(SubSeq(dateStr, 6, 7)),
                 digitsValue(SubSeq(dateStr, 9, 10)) >>
    THEN DateErr("InvalidDateFormatError")
  ELSE DateOk(dateUTCDays(digitsValue(SubSeq(dateStr, 1, 4)),
                          digitsValue(SubSeq(dateStr, 6, 7)),
                          digitsValue(SubSeq(dateStr, 9, 10))) * 86400)

yyyymmddToUnix(dateStr) ==
  IF ~matchesDatePattern(dateStr) THEN DateErr("InvalidDateFormatError")
  ELSE
    LET year  == digitsValue(SubSeq(dateStr, 1, 4))
        month == digitsValue(SubSeq(dateStr, 6, 7))
        day   == digitsValue(SubSeq(dateStr, 9, 10))
    IN  IF year < 1970 THEN DateErr("DateBeforeEpochError")
        ELSE IF month < 1 \/ month > 12 \/ day < 1 \/ day > 31
          THEN DateErr("InvalidDateFormatError")
        ELSE
          LET days == dateUTCDays(year, month, day)
          IN  IF civilFromDays(days) # <<year, month, day>>
                THEN DateErr("InvalidDateFormatError")
                ELSE DateOk(days * 86400)

\* ------------------------------------------------- _state_machine_core.ts
\* enum ParserMachineInternalState
WaitingForHeaderStart == "WaitingForHeaderStart"
ProcessingHeader == "ProcessingHeader"
WaitingForDataRowStart == "WaitingForDataRowStart"
ProcessingField == "ProcessingField"
SkippingLineDueToError == "SkippingLineDueToError"

\* Partial<Row>: a field is <<>> while undefined and <<value>> once assigned
EmptyRow == [ts |-> <<>>, o |-> <<>>, h |-> <<>>, l |-> <<>>, c |-> <<>>, v |-> <<>>]

\* A machine: the fields of one InternalStateMachineCore, the calls its two
\* callbacks have received so far (rows, skips), the number of input
\* characters handed to it so far (fed; at[..] is its value when the callback
\* was called), the value returned by the last processFieldEnd /
\* processRowEnd (ret), the call at which the callbacks given to the
\* constructor throw (throwAt: the n-th call of a callback throws, 0 for
\* callbacks that never throw) and the exception that is propagating out of
\* the machine to its caller (thrown, "none" while there is none).
\* this.currentRow refers to an object: currentRow is the content of the
\* object it refers to now, retired the contents of the objects it referred
\* to before, in the order of their creation (so the object it refers to now
\* is object Len(retired) + 1), and rowRefs the objects handed to the row
\* callback.
NewCore ==
  [ fieldBuffer |-> <<>>,
    currentRow |-> EmptyRow,
    fieldIndex |-> 0,
    state |-> WaitingForHeaderStart,
    currentLineNumber |-> 1,
    currentLineContentForError |-> <<>>,
    totalRowsProcessed |-> 0,
    rows |-> <<>>,
    rowAt |-> <<>>,
    skips |-> <<>>,
    skipAt |-> <<>>,
    retired |-> <<>>,
    rowRefs |-> <<>>,
    fed |-> 0,
    ret |-> TRUE,
    throwAt |-> 0,
    thrown |-> "none" ]

\* the return of a callback that was just called: it throws when the call is
\* the one the callbacks throw at
callbackReturn(m) ==
  IF m.throwAt > 0 /\ Len(m.rows) + Len(m.skips) = m.throwAt
    THEN [m EXCEPT !.thrown = "callback"]
    ELSE m

\* this.onSkip?.(err, this.currentLineNumber, this.currentLineContentForError, details)
\* (no statement is executed while an exception propagates)
onSkip(m, error, message, invalidField) ==
  IF m.thrown # "none" THEN m
  ELSE callbackReturn(
         [m EXCEPT !.skips = Append(@, [ error |-> error,
                                         message |-> message,
                                         lineNumber |-> m.currentLineNumber,
                                         lineContent |-> m.currentLineContentForError,
                                         invalidField |-> invalidField ]),
                   !.skipAt = Append(@, m.fed)])

\* rowCounted that counts the row twice
rowCountedTwice(m) ==
  IF m.thrown # "none" THEN m ELSE [m EXCEPT !.totalRowsProcessed = @ + 2]

\* this.totalRowsProcessed++, reached when the row callback returned
rowCounted(m) ==
  IF m.thrown # "none" THEN m ELSE [m EXCEPT !.totalRowsProcessed = @ + 1]

\* onRow with the high and the low of the record exchanged
onRowSwapped(m) ==
  IF m.thrown # "none" THEN m
  ELSE rowCounted(callbackReturn(
         [m EXCEPT !.rows = Append(@, [ ts |-> m.currentRow.ts[1], o |-> m.currentRow.o[1],
                                        h |-> m.currentRow.l[1], l |-> m.currentRow.h[1],
                                        c |-> m.currentRow.c[1], v |-> m.currentRow.v[1] ]),
                   !.rowAt = Append(@, m.fed),
                   !.rowRefs = Append(@, Len(m.retired) + 1)]))

\* this.onRow(this.currentRow as Row); this.totalRowsProcessed++
onRow(m) ==
  IF m.thrown # "none" THEN m
  ELSE rowCounted(callbackReturn(
         [m EXCEPT !.rows = Append(@, [ ts |-> m.currentRow.ts[1], o |-> m.currentRow.o[1],
                                        h |-> m.currentRow.h[1], l |-> m.currentRow.l[1],
                                        c |-> m.currentRow.c[1], v |-> m.currentRow.v[1] ]),
                   !.rowAt = Append(@, m.fed),
                   !.rowRefs = Append(@, Len(m.retired) + 1)]))

\* resetCurrentRowState that empties the object this.currentRow refers to
\* instead of making a new one
resetCurrentRowStateInPlace(m) ==
  [m EXCEPT !.fieldBuffer = <<>>, !.currentRow = EmptyRow, !.fieldIndex = 0]

\* this.fieldBuffer = ""; this.currentRow = {}; this.fieldIndex = 0: the
\* partial record is a new object, the one before keeps its content
resetCurrentRowState(m) ==
  [m EXCEPT !.fieldBuffer = <<>>, !.currentRow = EmptyRow, !.fieldIndex = 0,
            !.retired = Append(@, m.currentRow)]

\* resetForNewLine that keeps the field index and the partial record
resetForNewLineKeepRow(m) ==
  [m EXCEPT !.fieldBuffer = <<>>, !.currentLineContentForError = <<>>]

\* resetForNewLine that keeps the stored line content
resetForNewLineKeepContent(m) == resetCurrentRowState(m)

resetForNewLine(m) ==
  [resetCurrentRowState(m) EXCEPT !.currentLineContentForError = <<>>]

\* details.invalidField of the catch block of processFieldEnd
fieldName(i) ==
  CASE i = 0 -> "timestamp" [] i = 1 -> "open" [] i = 2 -> "high"
    [] i = 3 -> "low" [] i = 4 -> "close" [] i = 5 -> "volume"
    [] OTHER -> "undefined"

\* case 0 of the try block: the machine after the assignment to currentRow.ts
\* and the class of the error thrown ("none" when none is); r is what
\* yyyymmddToUnix gave
assignTs(m, r) ==
  IF r.err = "none"
    THEN [m |-> [m EXCEPT !.currentRow.ts = <<r.val>>], err |-> "none", msg |-> ""]
    ELSE [m |-> m, err |-> r.err, msg |-> "date"]

\* cases 1 to 4 of the try block; x is what parseFloat gave
assignPrice(m, x) ==
  LET i == m.fieldIndex
      k == CASE i = 1 -> "o" [] i = 2 -> "h" [] i = 3 -> "l" [] i = 4 -> "c"
      m1 == [m EXCEPT !.currentRow[k] = <<x>>]
  IN  IF x.nan
        THEN [m |-> m1,
              err |-> CASE i = 1 -> "InvalidOpenError" [] i = 2 -> "InvalidHighError"
                        [] i = 3 -> "InvalidLowError" [] i = 4 -> "InvalidCloseError",
              msg |-> "invalid value"]
        ELSE [m |-> m1, err |-> "none", msg |-> ""]

\* case 5 of the try block; x is what parseInt gave
assignVolume(m, x) ==
  IF x.nan
    THEN [m |-> [m EXCEPT !.currentRow.v = <<x>>],
          err |-> "InvalidVolumeError", msg |-> "invalid value"]
    ELSE [m |-> [m EXCEPT !.currentRow.v = <<x>>], err |-> "none", msg |-> ""]

\* the try block of processFieldEnd: the machine after the assignment to
\* currentRow, and the class of the error thrown ("none" when none is)
convertField(m, fieldValue) ==
  CASE m.fieldIndex = 0 -> assignTs(m, yyyymmddToUnix(fieldValue))
    [] m.fieldIndex \in 1..4 -> assignPrice(m, parseFloat(fieldValue))
    [] m.fieldIndex = 5 -> assignVolume(m, parseInt(fieldValue))
    [] OTHER -> [m |-> m, err |-> "InvalidFormatError", msg |-> "too many fields"]

\* fieldError that leaves the state as it is
fieldErrorKeepState(m, error, message) ==
  [onSkip(m, error, message, fieldName(m.fieldIndex)) EXCEPT !.ret = FALSE]

\* the catch block of processFieldEnd
fieldError(m, error, message) ==
  [onSkip(m, error, message, fieldName(m.fieldIndex))
     EXCEPT !.state = SkippingLineDueToError, !.ret = FALSE]

\* processFieldEnd without the catch block: the error leaves the machine
fieldConvertedUncaught(r) ==
  IF r.err # "none" THEN [r.m EXCEPT !.thrown = r.err, !.ret = FALSE]
  ELSE [r.m EXCEPT !.fieldIndex = @ + 1, !.ret = TRUE]

\* what follows the try block of processFieldEnd: the catch block when it
\* threw, else this.fieldIndex++; return true
fieldConverted(r) ==
  IF r.err # "none" THEN fieldError(r.m, r.err, r.msg)
  ELSE [r.m EXCEPT !.fieldIndex = @ + 1, !.ret = TRUE]

RECURSIVE processFieldEnd(_)
processFieldEnd(m) ==
  LET fieldValue == trim(m.fieldBuffer)
      m0 == [m EXCEPT !.fieldBuffer = <<>>]
  IN
  IF m0.state = SkippingLineDueToError THEN
    [m0 EXCEPT !.fieldIndex = @ + 1, !.ret = FALSE]
  ELSE IF m0.state = ProcessingHeader THEN
    LET m1 == [m0 EXCEPT !.fieldIndex = @ + 1]
    IN  IF m1.fieldIndex = 1 /\ ~includesDate(fieldValue) THEN
          LET m2 == onSkip(m1, "InvalidFormatError", "header format", "timestamp")
              m3 == resetCurrentRowState([m2 EXCEPT !.state = WaitingForDataRowStart])
          IN  processFieldEnd([m3 EXCEPT !.fieldBuffer = fieldValue])
        ELSE [m1 EXCEPT !.ret = TRUE]
  ELSE IF m0.state # ProcessingField THEN
    [onSkip(m0, "ParseError", "processFieldEnd in unexpected state", "nodetails")
       EXCEPT !.state = SkippingLineDueToError, !.ret = FALSE]
  ELSE fieldConverted(convertField(m0, fieldValue))

\* rowIsComplete without the test for all-zero values
rowIsCompleteAnyValues(r) ==
  r.ts # <<>> /\ r.o # <<>> /\ r.h # <<>> /\ r.l # <<>> /\ r.c # <<>> /\ r.v # <<>>

\* the test guarding this.onRow in processRowEnd
rowIsComplete(r) ==
  /\ r.ts # <<>> /\ r.o # <<>> /\ r.h # <<>> /\ r.l # <<>> /\ r.c # <<>> /\ r.v # <<>>
  /\ ~(r.o[1] = Num(0) /\ r.h[1] = Num(0) /\ r.l[1] = Num(0) /\ r.c[1] = Num(0)
       /\ r.v[1] = Num(0))

\* wrongFieldCount that only looks for too many fields
wrongFieldCountAbove(m) == m.fieldIndex > EXPECTED_FIELDS

\* this.fieldIndex !== EXPECTED_FIELDS
wrongFieldCount(m) == m.fieldIndex # EXPECTED_FIELDS

processRowEnd(m) ==
  IF m.state = SkippingLineDueToError THEN
    [resetForNewLine([m EXCEPT !.state = WaitingForDataRowStart]) EXCEPT !.ret = FALSE]
  ELSE IF m.state = ProcessingHeader THEN
    [resetForNewLine([m EXCEPT !.state = WaitingForDataRowStart]) EXCEPT !.ret = TRUE]
  ELSE IF m.state # ProcessingField THEN
    LET m1 == onSkip(m, "ParseError", "processRowEnd in unexpected state", "nodetails")
    IN  [resetForNewLine([m1 EXCEPT !.state = WaitingForDataRowStart]) EXCEPT !.ret = FALSE]
  ELSE IF m.fieldIndex = 0 /\ trim(m.currentLineContentForError) = <<>> THEN
    [resetForNewLine([m EXCEPT !.state = WaitingForDataRowStart]) EXCEPT !.ret = TRUE]
  ELSE IF wrongFieldCount(m) THEN
    LET m1 == IF ~(m.fieldIndex = 1
                   /\ removeCommas(trim(m.currentLineContentForError)) = <<>>)
                THEN onSkip(m, "InvalidFormatError", "incorrect field count", "nodetails")
                ELSE m
    IN  [resetForNewLine([m1 EXCEPT !.state = WaitingForDataRowStart]) EXCEPT !.ret = FALSE]
  ELSE
    LET m1 == IF rowIsComplete(m.currentRow)
                THEN onRow(m)
                ELSE onSkip(m, "InvalidFormatError", "all zero values", "nodetails")
    IN  [resetForNewLine([m1 EXCEPT !.state = WaitingForDataRowStart]) EXCEPT !.ret = TRUE]

\* lineEnd without this.currentLineNumber++
lineEndSameNumber(m1) ==
  IF m1.ret
    THEN processRowEnd(m1)
    ELSE resetForNewLine([m1 EXCEPT !.state = WaitingForDataRowStart])

\* the end of the "\n" branch of a line being processed; m1 is the machine
\* after the last field of the line was ended
lineEnd(m1) ==
  [(IF m1.ret
      THEN processRowEnd(m1)
      ELSE resetForNewLine([m1 EXCEPT !.state = WaitingForDataRowStart]))
     EXCEPT !.currentLineNumber = @ + 1]

\* the end of a blank line that is not counted
blankLineEndUncounted(m) == [m EXCEPT !.currentLineContentForError = <<>>]

\* a line feed in WaitingForHeaderStart or WaitingForDataRowStart:
\* this.currentLineNumber++; this.currentLineContentForError = ""; return
blankLineEnd(m) ==
  [m EXCEPT !.currentLineNumber = @ + 1, !.currentLineContentForError = <<>>]

\* a carriage return that is kept as a character of the field
carriageReturnKept(m) == [m EXCEPT !.fieldBuffer = Append(@, CR)]

\* a carriage return in WaitingForHeaderStart, ProcessingHeader,
\* ProcessingField and WaitingForDataRowStart: ignored
carriageReturn(m) == m

processCharInternal(mIn, char) ==
  LET m == IF char # LF /\ char # CR
             THEN [mIn EXCEPT !.currentLineContentForError = Append(@, char)]
             ELSE mIn
  IN
  CASE m.state = WaitingForHeaderStart ->
         IF char = LF THEN blankLineEnd(m)
         ELSE IF char = CR THEN carriageReturn(m)
         ELSE [m EXCEPT !.state = ProcessingHeader, !.fieldBuffer = Append(@, char)]
    [] m.state \in {ProcessingHeader, ProcessingField} ->
         IF char = COMMA THEN processFieldEnd(m)
         ELSE IF char = LF THEN
           lineEnd(IF Len(m.fieldBuffer) > 0 \/ m.fieldIndex > 0
                     THEN processFieldEnd(m)
                     ELSE [m EXCEPT !.ret = TRUE])
         ELSE IF char = CR THEN carriageReturn(m)
         ELSE [m EXCEPT !.fieldBuffer = Append(@, char)]
    [] m.state = WaitingForDataRowStart ->
         IF char = LF THEN blankLineEnd(m)
         ELSE IF char = CR THEN carriageReturn(m)
         ELSE [m EXCEPT !.state = ProcessingField, !.fieldBuffer = Append(@, char)]
    [] m.state = SkippingLineDueToError ->
         IF char = LF
           THEN [resetForNewLine([m EXCEPT !.state = WaitingForDataRowStart])
                   EXCEPT !.currentLineNumber = @ + 1]
           ELSE m

\* the for loop of processChunk over the characters lo..hi of the chunk, in
\* order.  The range is split in halves, and the test on fed makes the first
\* half be evaluated before the second is entered, to keep the evaluation
\* shallow; fed has advanced by the number of characters processed.  The loop
\* is left when an exception propagates.
RECURSIVE processChunkRange(_, _, _, _)
processChunkRange(m, chunk, lo, hi) ==
  IF lo > hi THEN m
  ELSE IF lo = hi THEN
    IF m.thrown # "none" THEN m
    ELSE processCharInternal([m EXCEPT !.fed = @ + 1], chunk[lo])
  ELSE LET mid  == (lo + hi) \div 2
           left == processChunkRange(m, chunk, lo, mid)
       IN  IF left.fed >= mid
             THEN processChunkRange(left, chunk, mid + 1, hi)
             ELSE left

\* processChunk that starts every chunk with an empty field buffer
processChunkFresh(m, chunk) ==
  processChunkRange([m EXCEPT !.fieldBuffer = <<>>], chunk, 1, Len(chunk))

processChunk(m, chunk) == processChunkRange(m, chunk, 1, Len(chunk))

\* finalize that ends the last field but not the last row
finalizeFieldOnly(mIn) ==
  LET m == [mIn EXCEPT !.fed = @ + 1] IN
  IF Len(m.fieldBuffer) > 0 /\ m.state \in {ProcessingField, ProcessingHeader}
    THEN processFieldEnd(m)
  ELSE IF m.state = SkippingLineDueToError /\ Len(m.currentLineContentForError) > 0
    THEN onSkip(m, "ParseError", "Incomplete errored line at EOF", "nodetails")
  ELSE m

\* finalize after its call of processFieldEnd, which left the machine m1
finalizeRow(m1) ==
  IF m1.ret /\ m1.state \in {ProcessingField, ProcessingHeader} /\ m1.fieldIndex > 0
    THEN processRowEnd(m1)
    ELSE m1

\* finalize that reports nothing for a line that was being skipped
finalizeNoEofNotice(mIn) ==
  IF mIn.thrown # "none" THEN mIn
  ELSE IF Len(mIn.fieldBuffer) > 0 /\ mIn.state \in {ProcessingField, ProcessingHeader}
    THEN finalizeRow(processFieldEnd([mIn EXCEPT !.fed = @ + 1]))
  ELSE [mIn EXCEPT !.fed = @ + 1]

finalize(mIn) ==
  LET m == [mIn EXCEPT !.fed = @ + 1] IN
  IF mIn.thrown # "none" THEN mIn
  ELSE IF Len(m.fieldBuffer) > 0 /\ m.state \in {ProcessingField, ProcessingHeader} THEN
    finalizeRow(processFieldEnd(m))
  ELSE IF m.state = SkippingLineDueToError /\ Len(m.currentLineContentForError) > 0 THEN
    onSkip(m, "ParseError", "Incomplete errored line at EOF", "nodetails")
  ELSE m

\* state_machine_full_string.ts: the machine after parsing a whole text
parseFullStringWithStateMachine(csvContent) ==
  finalize(processChunk(NewCore, csvContent))

\* ------------------------------------------------------------- input texts
\* field texts
dOk == <<"2", "0", "2", "3", "-", "0", "1", "-", "0", "1">>
dNext == <<"2", "0", "2", "3", "-", "0", "1", "-", "0", "2">>
dEpoch == <<"1", "9", "7", "0", "-", "0", "1", "-", "0", "1">>
dBefore == <<"1", "9", "6", "9", "-", "1", "2", "-", "3", "1">>
dFeb30 == <<"2", "0", "2", "3", "-", "0", "2", "-", "3", "0">>
dSlash == <<"2", "0", "2", "3", "/", "0", "1", "/", "0", "1">>
hDate == <<"D", "a", "t", "e">>
hUpper == <<"D", "A", "T", "E">>
hOpen == <<"O", "p", "e", "n">>

\* fields joined by commas
RECURSIVE join(_)
join(fs) ==
  IF fs = <<>> THEN <<>>
  ELSE IF Len(fs) = 1 THEN fs[1]
  ELSE fs[1] \o <<COMMA>> \o join(Tail(fs))

\* a line with the spec's example values 1,2,1,1,10 in which field k (0..5)
\* holds the text f
lineWith(k, f) ==
  join([i \in 1..6 |->
          IF i = k + 1 THEN f
          ELSE CASE i = 1 -> dOk [] i = 2 -> <<"1">> [] i = 3 -> <<"2">>
                 [] i = 4 -> <<"1">> [] i = 5 -> <<"1">> [] i = 6 -> <<"1", "0">>])

goodLine == lineWith(0, dOk)
zeroLine == join(<<dOk, <<"0">>, <<"0", ".", "0">>, <<"0">>, <<"0">>, <<"0">>>>)
shortLine == join(<<dOk, <<"1">>>>)

\* the lines that may precede the last line of a text
SmallLines == { goodLine, lineWith(1, <<"x">>), shortLine, <<>> }

\* the lines a text may end with
BigLines ==
  SmallLines \cup
  { zeroLine,
    lineWith(0, dNext), lineWith(0, dEpoch), lineWith(0, dBefore),
    lineWith(0, dFeb30), lineWith(0, dSlash), lineWith(0, <<"x">>),
    lineWith(0, hDate), lineWith(0, <<SP>> \o dOk \o <<SP>>),
    lineWith(1, <<>>), lineWith(1, <<"1", ".", "5">>), lineWith(1, <<"1", "x">>),
    lineWith(1, <<SP, "1", SP>>), lineWith(1, <<"1", CR>>),
    lineWith(2, <<"x">>), lineWith(3, <<"x">>), lineWith(4, <<"x">>),
    lineWith(5, <<"x">>), lineWith(5, <<"1", ".", "5">>), lineWith(5, <<>>),
    join(<<dOk, <<"x">>, <<"x">>, <<"1">>, <<"1">>, <<"1">>>>),
    join(<<<<"x">>, <<"1">>>>),
    join(<<dOk, <<"1">>, <<"2">>, <<"1">>, <<"1">>>>),
    join(<<dOk, <<"1">>, <<"2">>, <<"1">>, <<"1">>, <<>>>>),
    goodLine \o <<COMMA>>,
    goodLine \o <<COMMA, "1">>,
    goodLine \o <<COMMA, "1", COMMA, "1">>,
    lineWith(1, <<"x">>) \o <<COMMA, "1">>,
    goodLine \o <<CR>>,
    <<COMMA>>, <<COMMA, COMMA>>, <<SP>>, <<CR>>, <<"x">>,
    <<COMMA>> \o goodLine }

\* what a text may start with: nothing, a header line, a header line with
\* several fields and a CRLF ending, a blank line followed by a header line
Preambles ==
  { <<>>,
    hDate \o <<LF>>,
    join(<<hUpper, hOpen>>) \o <<CR, LF>>,
    <<LF>> \o hDate \o <<LF>> }

\* sequences of at most k lines, each ended by a line feed
RECURSIVE LineSeqs(_)
LineSeqs(k) ==
  IF k = 0 THEN { <<>> }
  ELSE { <<>> } \cup { l \o <<LF>> \o r : l \in SmallLines, r \in LineSeqs(k - 1) }

\* a last line, with and without its line feed
LastLines(ls) == { <<>> } \cup ls \cup { l \o <<LF>> : l \in ls }

\* texts of up to MaxLines data lines
LongTexts ==
  { p \o b \o f : p \in Preambles, b \in LineSeqs(MaxLines - 1), f \in LastLines(SmallLines) }

\* texts of up to two data lines, the last one of any shape
ProbeTexts ==
  { p \o b \o f : p \in Preambles, b \in LineSeqs(1), f \in LastLines(BigLines) }

\* texts whose header line has more than six fields
WideHeaderTexts ==
  { lineWith(0, hDate) \o <<COMMA>> \o hOpen \o e \o goodLine \o <<LF>> :
      e \in { <<LF>>, <<CR, LF>> } }

\* texts with carriage returns inside a date, inside a number, before the
\* comma of a field that fails, at the end of a line that is too short and
\* inside the rest of a line that is skipped
CarriageReturnTexts ==
  { hDate \o <<LF>> \o l \o e :
      l \in { lineWith(0, <<"2", "0", "2", "3", "-", CR, "0", "1", "-", "0", "1">>),
              lineWith(5, <<"1", CR, "0">>),
              lineWith(1, <<"x", CR>>) \o <<CR>>,
              shortLine \o <<CR>> },
      e \in { <<>>, <<CR, LF>> } }

Texts == LongTexts \cup ProbeTexts \cup WideHeaderTexts \cup CarriageReturnTexts

\* ---------------------------------------------- stream_optimized_ohlcv.ts
\* the body of a numeric literal without its sign: digits, digits.digits,
\* digits. or .digits
isDecimalLiteral(s1) ==
  \/ Len(s1) > 0 /\ digitRun(s1) = Len(s1)
  \/ /\ Len(s1) > 1
     /\ digitRun(s1) < Len(s1)
     /\ s1[digitRun(s1) + 1] = "."
     /\ digitRun(SubSeq(s1, digitRun(s1) + 2, Len(s1))) = Len(s1) - digitRun(s1) - 1

\* the unary + of a string that has no white space around it: 0 for the
\* empty string, NaN unless the whole string is a numeric literal.
\* (Exponents, hexadecimal literals and "Infinity" do not occur in the texts
\* of the model.)
numberOfTrimmed(t) ==
  IF t = <<>> THEN Num(0)
  ELSE IF isDecimalLiteral(unsigned(t)) THEN parseFloat(t)
  ELSE NaN

\* +str
toNumber(str) == numberOfTrimmed(trim(str))

\* the position of the k-th comma of a line; 0 for k = 0, one past the end
\* of the line when the line has fewer commas
commaAt(line, k) ==
  IF k = 0 THEN 0
  ELSE IF Cardinality({ i \in 1..Len(line) : line[i] = COMMA }) < k THEN Len(line) + 1
  ELSE CHOOSE i \in 1..Len(line) :
         /\ line[i] = COMMA
         /\ Cardinality({ j \in 1..i : line[j] = COMMA }) = k

\* line.substring(p(k-1) + 1, p(k)) for k = 1..5, line.substring(p5 + 1) for k = 6
substringField(line, k) ==
  SubSeq(line, commaAt(line, k - 1) + 1,
         IF k = 6 THEN Len(line) ELSE commaAt(line, k) - 1)

\* the locals of one call of parseStreamOptimizedOhlcv, its parameter
\* skipHeader, and the calls its callbacks have received (as for a Core).
\* scratch is the content of the module-level object reusableOptimizedRow
\* while the call runs between two awaits (it is empty while the call is
\* suspended: the object is then the variable reusableOptimizedRow), and
\* rowRefs the object handed to each call of the row callback: "new" for an
\* object of its own, "scratch" for reusableOptimizedRow itself.
NewOptimized(skipHeader, k) ==
  [ lineBuffer |-> <<>>,
    scratch |-> EmptyRow,
    rowRefs |-> <<>>,
    rowCount |-> 0,
    isFirstNonEmptyLine |-> TRUE,
    currentLineNumber |-> 0,
    skipHeader |-> skipHeader,
    rows |-> <<>>,
    skips |-> <<>>,
    throwAt |-> k,
    thrown |-> "none" ]

\* reusableOptimizedRow after the six assignments of the try block
assignedRow(line) ==
  [ ts |-> <<yyyymmddToUnix(substringField(line, 1)).val>>,
    o |-> <<toNumber(substringField(line, 2))>>,
    h |-> <<toNumber(substringField(line, 3))>>,
    l |-> <<toNumber(substringField(line, 4))>>,
    c |-> <<toNumber(substringField(line, 5))>>,
    v |-> <<toNumber(substringField(line, 6))>> ]

\* parsedRow that returns reusableOptimizedRow itself instead of a copy
parsedRowScratch(r) ==
  IF r.o[1].nan \/ r.h[1].nan \/ r.l[1].nan \/ r.c[1].nan \/ r.v[1].nan
    THEN [null |-> TRUE, scratch |-> r]
  ELSE IF r.o[1].val = 0 /\ r.h[1].val = 0 /\ r.l[1].val = 0 /\ r.c[1].val = 0
          /\ r.v[1].val = 0 /\ r.ts[1] # 0
    THEN [null |-> TRUE, scratch |-> r]
  ELSE [null |-> FALSE, ts |-> r.ts[1], o |-> r.o[1], h |-> r.h[1], l |-> r.l[1],
        c |-> r.c[1], v |-> r.v[1], ref |-> "scratch", scratch |-> r]

\* the result of parseOhlcvLineOptimizedInternal, read from
\* reusableOptimizedRow (r) after the six assignments: null when a value is
\* NaN and when the five values are zero and the timestamp is not, else a
\* new object with the six values of r; and reusableOptimizedRow as the call
\* leaves it
parsedRow(r) ==
  IF r.o[1].nan \/ r.h[1].nan \/ r.l[1].nan \/ r.c[1].nan \/ r.v[1].nan
    THEN [null |-> TRUE, scratch |-> r]
  ELSE IF r.o[1].val = 0 /\ r.h[1].val = 0 /\ r.l[1].val = 0 /\ r.c[1].val = 0
          /\ r.v[1].val = 0 /\ r.ts[1] # 0
    THEN [null |-> TRUE, scratch |-> r]
  ELSE [null |-> FALSE, ts |-> r.ts[1], o |-> r.o[1], h |-> r.h[1], l |-> r.l[1],
        c |-> r.c[1], v |-> r.v[1], ref |-> "new", scratch |-> r]

\* parseOhlcvLineOptimizedInternal(line) when reusableOptimizedRow holds
\* scratch: null before any assignment when the line has fewer than five
\* commas and when the date normalizer throws (the first assignment)
parseOhlcvLineOptimizedInternal(scratch, line) ==
  IF Cardinality({ i \in 1..Len(line) : line[i] = COMMA }) < 5
    THEN [null |-> TRUE, scratch |-> scratch]
  ELSE IF yyyymmddToUnix(substringField(line, 1)).err # "none"
    THEN [null |-> TRUE, scratch |-> scratch]
  ELSE parsedRow(assignedRow(line))

\* onSkipLine?.(error, currentLineNumber, line)
optimizedSkip(o, error, message, line) ==
  IF o.thrown # "none" THEN o
  ELSE callbackReturn(
         [o EXCEPT !.skips = Append(@, [ error |-> error,
                                         message |-> message,
                                         lineNumber |-> o.currentLineNumber,
                                         lineContent |-> line ])])

\* rowCount++, reached when the row callback returned
optimizedRowCounted(o) ==
  IF o.thrown # "none" THEN o ELSE [o EXCEPT !.rowCount = @ + 1]

\* onRow(parsedRow); rowCount++
optimizedRow(o, row) ==
  IF o.thrown # "none" THEN o
  ELSE optimizedRowCounted(callbackReturn(
         [o EXCEPT !.rows = Append(@, [ ts |-> row.ts, o |-> row.o, h |-> row.h,
                                        l |-> row.l, c |-> row.c, v |-> row.v ]),
                   !.rowRefs = Append(@, row.ref)]))

\* if (parsedRow) { onRow(parsedRow); rowCount++ } else { onSkipLine?.(...) }
emitParsed(o, row, line, message) ==
  IF ~row.null THEN optimizedRow([o EXCEPT !.scratch = row.scratch], row)
  ELSE optimizedSkip([o EXCEPT !.scratch = row.scratch], "InvalidFormatError", message, line)

\* the body of the inner loop for one line taken from lineBuffer
optimizedLine(o, line) ==
  IF line = <<>> THEN o
  ELSE IF o.skipHeader /\ o.isFirstNonEmptyLine
    THEN optimizedSkip([o EXCEPT !.isFirstNonEmptyLine = FALSE],
                       "ParseError", "Skipped header", line)
  ELSE emitParsed([o EXCEPT !.isFirstNonEmptyLine = FALSE],
                  parseOhlcvLineOptimizedInternal(o.scratch, line), line,
                  "Line did not match optimized OHLCV format")

\* lineBuffer.indexOf("\n"), counted from 1; 0 when there is none
newlineIndex(buf) ==
  IF \A i \in 1..Len(buf) : buf[i] # LF THEN 0
  ELSE CHOOSE i \in 1..Len(buf) : buf[i] = LF /\ \A j \in 1..(i - 1) : buf[j] # LF

\* while ((newlineIndex = lineBuffer.indexOf("\n")) >= 0) { ... }
RECURSIVE optimizedLines(_)
optimizedLines(o) ==
  IF o.thrown # "none" \/ newlineIndex(o.lineBuffer) = 0 THEN o
  ELSE optimizedLines(
         optimizedLine(
           [o EXCEPT !.currentLineNumber = @ + 1,
                     !.lineBuffer = SubSeq(@, newlineIndex(@) + 1, Len(@))],
           trimEnd(SubSeq(o.lineBuffer, 1, newlineIndex(o.lineBuffer) - 1))))

\* optimizedChunk that starts every chunk with an empty line buffer
optimizedChunkFresh(o, decoded) ==
  optimizedLines([o EXCEPT !.lineBuffer = decoded])

\* lineBuffer += decoder.decode(value, { stream: true }) and the inner loop
optimizedChunk(o, decoded) ==
  optimizedLines([o EXCEPT !.lineBuffer = @ \o decoded])

\* the statements on lastLine after the read loop
optimizedLastLine(o, lastLine) ==
  IF Len(lastLine) = 0 \/ o.thrown # "none" THEN o
  ELSE IF ~(o.skipHeader /\ o.isFirstNonEmptyLine)
    THEN emitParsed([o EXCEPT !.currentLineNumber = @ + 1],
                    parseOhlcvLineOptimizedInternal(o.scratch, lastLine), lastLine,
                    "Last line did not match optimized OHLCV format")
  ELSE optimizedSkip([o EXCEPT !.currentLineNumber = @ + 1],
                     "ParseError", "Skipped header (was last line)", lastLine)

\* the statements on remainingDecoderContent
optimizedRemainder(o, line) ==
  IF Len(line) = 0 \/ o.thrown # "none" THEN o
  ELSE IF ~o.isFirstNonEmptyLine \/ ~o.skipHeader
    THEN emitParsed([o EXCEPT !.currentLineNumber = @ + 1],
                    parseOhlcvLineOptimizedInternal(o.scratch, line), line,
                    "Final decoder content did not match")
  ELSE [o EXCEPT !.currentLineNumber = @ + 1]

\* parseStreamOptimizedOhlcv after the read loop; remaining is decoder.decode()
optimizedEnd(o, remaining) ==
  optimizedRemainder(optimizedLastLine(o, trimEnd(o.lineBuffer)), trim(remaining))

\* ------------------------------------------------------------ simple_split.ts
\* str.split(sep) for a separator of one character
RECURSIVE jsSplit(_, _)
jsSplit(str, sep) ==
  IF \A i \in 1..Len(str) : str[i] # sep THEN <<str>>
  ELSE <<SubSeq(str, 1, (CHOOSE i \in 1..Len(str) :
                           str[i] = sep /\ \A j \in 1..(i - 1) : str[j] # sep) - 1)>>
         \o jsSplit(SubSeq(str, (CHOOSE i \in 1..Len(str) :
                                   str[i] = sep /\ \A j \in 1..(i - 1) : str[j] # sep) + 1,
                            Len(str)), sep)

\* a part of the text that a line feed followed, without the carriage
\* return that /\r?\n/ has matched with the line feed
withoutMatchedCR(part) ==
  IF part # <<>> /\ part[Len(part)] = CR THEN SubSeq(part, 1, Len(part) - 1) ELSE part

\* csvContent.split(/\r?\n/)
splitLines(csvContent) ==
  [ i \in 1..Len(jsSplit(csvContent, LF)) |->
      IF i < Len(jsSplit(csvContent, LF))
        THEN withoutMatchedCR(jsSplit(csvContent, LF)[i])
        ELSE jsSplit(csvContent, LF)[i] ]

\* what a call of parseLineToRowSimple does: it throws an error of class err
\* or returns row
SimpleThrows(e) == [err |-> e, row |-> EmptyRow]
SimpleReturns(r) == [err |-> "none", row |-> r]

\* parseLineToRowSimple after the six fields are converted: the catch block
\* throws the error of the date normalizer again, in its own class
simpleRow(ts, o, h, l, c, v) ==
  IF ts.err # "none" THEN SimpleThrows(ts.err)
  ELSE IF o.nan THEN SimpleThrows("InvalidOpenError")
  ELSE IF h.nan THEN SimpleThrows("InvalidHighError")
  ELSE IF l.nan THEN SimpleThrows("InvalidLowError")
  ELSE IF c.nan THEN SimpleThrows("InvalidCloseError")
  ELSE IF v.nan THEN SimpleThrows("InvalidVolumeError")
  ELSE IF o.val = 0 /\ h.val = 0 /\ l.val = 0 /\ c.val = 0 /\ v.val = 0
    THEN SimpleThrows("InvalidFormatError")
  ELSE SimpleReturns([ts |-> ts.val, o |-> o, h |-> h, l |-> l, c |-> c, v |-> v])

\* parseLineToRowSimple from the fields of the line
simpleFields(fields) ==
  IF Len(fields) # EXPECTED_FIELDS THEN SimpleThrows("InvalidFormatError")
  ELSE simpleRow(yyyymmddToUnix(trim(fields[1])),
                 toNumber(trim(fields[2])), toNumber(trim(fields[3])),
                 toNumber(trim(fields[4])), toNumber(trim(fields[5])),
                 toNumber(trim(fields[6])))

parseLineToRowSimple(line) == simpleFields(jsSplit(line, COMMA))

\* The state of one call of parseWithSimpleSplit: the rows pushed so far, the
\* errors its catch block has caught so far, with the number of their line
\* (the program does not keep them), and the exception that leaves the call.
NewSimple == [rows |-> <<>>, caught |-> <<>>, thrown |-> "none"]

\* try { rows.push(parseLineToRowSimple(line, i + 1)) } catch (e) { }
\* for the outcome r of parseLineToRowSimple on line i + 1
simpleTried(a, r, lineNumber) ==
  IF r.err = "none" THEN [a EXCEPT !.rows = Append(@, r.row)]
  ELSE [a EXCEPT !.caught = Append(@, [error |-> r.err, lineNumber |-> lineNumber])]

\* the body of the for loop for lines[i], the element i of the array
\* counted from 0
simpleLine(a, line, i) ==
  IF line = <<>> THEN a ELSE simpleTried(a, parseLineToRowSimple(line), i + 1)

\* the for loop from index i (counted from 0) on
RECURSIVE simpleLoop(_, _, _)
simpleLoop(a, lines, i) ==
  IF i >= Len(lines) THEN a
  ELSE simpleLoop(simpleLine(a, trim(lines[i + 1]), i), lines, i + 1)

parseWithSimpleSplit(csvContent, skipHeader) ==
  simpleLoop(NewSimple, splitLines(csvContent), IF skipHeader THEN 1 ELSE 0)

\* -------------------------------------------------------------- TextDecoder
\* The bytes of a source are modelled by one token each: a byte below 0x80 by
\* its character, and the two bytes of the UTF-8 encoding of U+00E9 by "C3"
\* (a lead byte) and "A9" (a continuation byte).
LeadByte == "C3"
ContByte == "A9"
EAcute == "U+00E9"
Replacement == "U+FFFD"

\* the decoding r of the following bytes, after the characters c
decodedAfter(c, r) == [r EXCEPT !.out = c \o @]

\* the characters decoded from the bytes bs and the bytes of an incomplete
\* character held back at their end
RECURSIVE decodeFrom(_)
decodeFrom(bs) ==
  IF bs = <<>> THEN [out |-> <<>>, pending |-> <<>>]
  ELSE IF bs[1] = LeadByte THEN
    IF Len(bs) = 1 THEN [out |-> <<>>, pending |-> bs]
    ELSE IF bs[2] = ContByte
      THEN decodedAfter(<<EAcute>>, decodeFrom(SubSeq(bs, 3, Len(bs))))
      ELSE decodedAfter(<<Replacement>>, decodeFrom(Tail(bs)))
  ELSE IF bs[1] = ContByte THEN decodedAfter(<<Replacement>>, decodeFrom(Tail(bs)))
  ELSE decodedAfter(<<bs[1]>>, decodeFrom(Tail(bs)))

\* decoder.decode(value, { stream: true }) of a decoder that holds back the
\* bytes pending
decode(pending, value) == decodeFrom(pending \o value)

\* decoder.decode(): an incomplete character is replaced
decodeFlush(pending) == IF pending = <<>> THEN <<>> ELSE <<Replacement>>

\* ------------------------------------------------------------ state machine
\* The sessions: calls of the entry points.  A session holds
\*   text      the bytes of its source (the characters of the string, for the
\*             full-string entry point)
\*   entry     its entry point: "stream" (parseStreamWithStateMachine),
\*             "full" (parseFullStringWithStateMachine) or "optimized"
\*             (parseStreamOptimizedOhlcv)
\*   parser    its InternalStateMachineCore and the calls of its callbacks
\*   opt       the locals of parseStreamOptimizedOhlcv and the calls of its
\*             callbacks
\*   pc        "reading" while chunks are read, "done" when it returned,
\*             "failed" when it threw
\*   decoder   the bytes its TextDecoder holds back
\*   pos       the number of bytes read from its source
\*   locked    its reader holds the lock of the stream
\*   releases  the number of calls of reader.releaseLock()
\*   result    what the caller got: "pending", "returned" with the value, or
\*             "threw" with the error
\* and the module-level object of stream_optimized_ohlcv.ts that all calls of
\* parseStreamOptimizedOhlcv share:
\*   reusableOptimizedRow   its content
VARIABLES sessions, reusableOptimizedRow

vars == <<sessions, reusableOptimizedRow>>

\* the first session
text == sessions[1].text
entry == sessions[1].entry
parser == sessions[1].parser
pc == sessions[1].pc

\* a session at the call of entry point e on the source t, with callbacks
\* that throw at call k (0: never)
NewSession(t, e, k) ==
  [ text |-> t,
    entry |-> e,
    parser |-> [NewCore EXCEPT !.throwAt = k],
    opt |-> NewOptimized(TRUE, k),
    pc |-> "reading",
    decoder |-> <<>>,
    pos |-> 0,
    simple |-> NewSimple,
    locked |-> (e \in {"stream", "optimized"}),
    releases |-> 0,
    result |-> [kind |-> "pending", value |-> 0] ]

Init ==
  /\ \E t \in Texts, e \in {"stream", "full"} : sessions = <<NewSession(t, e, 0)>>
  /\ reusableOptimizedRow = EmptyRow

\* finally { reader.releaseLock() }
releaseLock(s) == [s EXCEPT !.locked = FALSE, !.releases = @ + 1]

\* the error e leaves parseStreamWithStateMachine without the finally block
rejectedNoFinally(s, e) ==
  [s EXCEPT !.pc = "failed", !.result = [kind |-> "threw", value |-> e]]

\* the error e leaves parseStreamWithStateMachine through the finally block
rejected(s, e) ==
  releaseLock([s EXCEPT !.pc = "failed", !.result = [kind |-> "threw", value |-> e]])

\* return parser.totalRowsProcessed, through the finally block
resolved(s) ==
  releaseLock([s EXCEPT !.pc = "done",
                        !.result = [kind |-> "returned",
                                    value |-> s.parser.totalRowsProcessed]])

\* the read loop after parser.processChunk: an exception of a callback
\* leaves the function
afterChunk(s) ==
  IF s.parser.thrown # "none" THEN rejected(s, s.parser.thrown) ELSE s

\* readChunk that hands the chunk to the Core of the first session, as if the
\* sessions had one Core in common
readChunkShared(s, n) ==
  afterChunk(
    [s EXCEPT !.pos = @ + n,
              !.decoder = decode(s.decoder, SubSeq(s.text, s.pos + 1, s.pos + n)).pending,
              !.parser = processChunk([sessions[1].parser EXCEPT !.throwAt = s.parser.throwAt],
                                      decode(s.decoder,
                                             SubSeq(s.text, s.pos + 1, s.pos + n)).out)])

\* readChunk that hands the Core the chunk of the round before and holds the
\* chunk it has just read back until the next round
readChunkLate(s, n) ==
  afterChunk(
    [s EXCEPT !.pos = @ + n,
              !.parser = processChunk(@, SubSeq(s.text, s.parser.fed + 1, s.pos))])

\* one round of the read loop: reader.read() gave the next n bytes
readChunk(s, n) ==
  afterChunk(
    [s EXCEPT !.pos = @ + n,
              !.decoder = decode(s.decoder, SubSeq(s.text, s.pos + 1, s.pos + n)).pending,
              !.parser = processChunk(@, decode(s.decoder,
                                                SubSeq(s.text, s.pos + 1, s.pos + n)).out)])

\* flushed that drops the remainder of the decoder
flushedDropped(m, remaining) == m

\* const remaining = decoder.decode(); if (remaining) parser.processChunk(remaining)
flushed(m, remaining) ==
  IF remaining # <<>> THEN processChunk(m, remaining) ELSE m

\* the end of parseStreamWithStateMachine after parser.finalize()
afterFinalize(s) ==
  IF s.parser.thrown # "none" THEN rejected(s, s.parser.thrown) ELSE resolved(s)

\* reader.read() gave done: the rest of parseStreamWithStateMachine
readDone(s) ==
  afterFinalize(
    [s EXCEPT !.decoder = <<>>,
              !.parser = finalize(flushed(@, decodeFlush(s.decoder)))])

\* return rows
fullReturned(s) ==
  [s EXCEPT !.pc = "done", !.result = [kind |-> "returned", value |-> s.parser.rows]]

\* a call of parseFullStringWithStateMachine that goes on with the Core the
\* first session has left, instead of a Core of its own
fullCallShared(s) ==
  fullReturned([s EXCEPT !.parser = finalize(processChunk(
                  [sessions[1].parser EXCEPT !.thrown = "none"], s.text))])

\* a call of parseFullStringWithStateMachine
fullCall(s) ==
  fullReturned([s EXCEPT !.parser = parseFullStringWithStateMachine(s.text)])

\* one round of the read loop of parseStreamOptimizedOhlcv: reader.read()
\* gave the next n bytes; an exception of a callback leaves the function
optimizedAfter(s) ==
  IF s.opt.thrown # "none" THEN rejected(s, s.opt.thrown) ELSE s

optimizedRead(s, n) ==
  optimizedAfter(
    [s EXCEPT !.pos = @ + n,
              !.decoder = decode(s.decoder, SubSeq(s.text, s.pos + 1, s.pos + n)).pending,
              !.opt = optimizedChunk(@, decode(s.decoder,
                                               SubSeq(s.text, s.pos + 1, s.pos + n)).out)])

\* return rowCount, after the finally block
optimizedResolved(s) ==
  IF s.opt.thrown # "none" THEN rejected(s, s.opt.thrown)
  ELSE releaseLock([s EXCEPT !.pc = "done",
                             !.result = [kind |-> "returned", value |-> s.opt.rowCount]])

\* reader.read() gave done: the rest of parseStreamOptimizedOhlcv
optimizedDone(s) ==
  optimizedResolved(
    [s EXCEPT !.decoder = <<>>,
              !.opt = optimizedEnd(@, decodeFlush(s.decoder))])

\* parseStreamWithStateMachine: one round of the read loop, which hands the
\* next n bytes of the source, decoded, to processChunk
ProcessChunk ==
  /\ UNCHANGED reusableOptimizedRow
  /\ \E i \in DOMAIN sessions :
       /\ sessions[i].entry = "stream"
       /\ sessions[i].pc = "reading"
       /\ \E n \in 0..MaxChunk :
            /\ sessions[i].pos + n <= Len(sessions[i].text)
            /\ sessions' = [sessions EXCEPT ![i] = readChunk(@, n)]

\* parseStreamWithStateMachine: the source is exhausted
Finalize ==
  /\ UNCHANGED reusableOptimizedRow
  /\ \E i \in DOMAIN sessions :
       /\ sessions[i].entry = "stream"
       /\ sessions[i].pc = "reading"
       /\ sessions[i].pos = Len(sessions[i].text)
       /\ sessions' = [sessions EXCEPT ![i] = readDone(@)]

\* parseFullStringWithStateMachine(text)
ParseFullString ==
  /\ UNCHANGED reusableOptimizedRow
  /\ \E i \in DOMAIN sessions :
       /\ sessions[i].entry = "full"
       /\ sessions[i].pc = "reading"
       /\ sessions' = [sessions EXCEPT ![i] = fullCall(@)]

Next == ProcessChunk \/ Finalize \/ ParseFullString

Spec == Init /\ [][Next]_vars

\* ---------------------------------------- concurrent sessions, failing sources
\* sources: a header and a row; a header, a line that is skipped and an
\* unterminated row; a header, the line U+00E9, a row and an incomplete
\* character at the end of the source
IOStrings ==
  { hDate \o <<LF>> \o goodLine \o <<LF>>,
    hDate \o <<LF, "x", LF>> \o goodLine }

IOByteStreams ==
  IOStrings \cup
  { hDate \o <<LF, LeadByte, ContByte, LF>> \o goodLine \o <<LF, LeadByte>> }

\* the calls the sessions start from: each entry point on each source with
\* callbacks that do not throw, the stream entry points also with callbacks
\* that throw, parseStreamOptimizedOhlcv also with skipHeader = false
SessionStarts ==
  { NewSession(t, "stream", 0) : t \in IOByteStreams }
    \cup { NewSession(t, "stream", k) : t \in IOStrings, k \in 1..MaxThrowAt }
    \cup { NewSession(t, "full", 0) : t \in IOStrings }
    \cup { NewSession(t, "optimized", 0) : t \in IOByteStreams }
    \cup { NewSession(hDate \o <<LF>> \o goodLine \o <<LF>>, "optimized", k) :
             k \in 1..MaxThrowAt }
    \cup { [NewSession(hDate \o <<LF, "x", LF>> \o goodLine, "optimized", 0)
              EXCEPT !.opt = NewOptimized(FALSE, 0)] }

InitIO ==
  /\ sessions \in [1..MaxSessions -> SessionStarts]
  /\ reusableOptimizedRow = EmptyRow

\* parseStreamWithStateMachine: reader.read() rejects (the source failed or
\* was cancelled)
ReadRejects ==
  /\ UNCHANGED reusableOptimizedRow
  /\ \E i \in DOMAIN sessions :
       /\ sessions[i].entry \in {"stream", "optimized"}
       /\ sessions[i].pc = "reading"
       /\ sessions' = [sessions EXCEPT ![i] = rejected(@, "read")]

\* a call of parseStreamOptimizedOhlcv that goes on after an await finds
\* reusableOptimizedRow as the calls that ran meanwhile have left it, and
\* leaves it to them at its next await
resumed(s) == [s EXCEPT !.opt.scratch = reusableOptimizedRow]
suspended(s) == [s EXCEPT !.opt.scratch = EmptyRow]

\* parseStreamOptimizedOhlcv: one round of the read loop
OptimizedChunk ==
  \E i \in DOMAIN sessions :
    /\ sessions[i].entry = "optimized"
    /\ sessions[i].pc = "reading"
    /\ \E n \in 0..MaxChunk :
         /\ sessions[i].pos + n <= Len(sessions[i].text)
         /\ sessions' = [sessions EXCEPT ![i] = suspended(optimizedRead(resumed(@), n))]
         /\ reusableOptimizedRow' = optimizedRead(resumed(sessions[i]), n).opt.scratch

\* parseStreamOptimizedOhlcv: the source is exhausted
OptimizedDone ==
  \E i \in DOMAIN sessions :
    /\ sessions[i].entry = "optimized"
    /\ sessions[i].pc = "reading"
    /\ sessions[i].pos = Len(sessions[i].text)
    /\ sessions' = [sessions EXCEPT ![i] = suspended(optimizedDone(resumed(@)))]
    /\ reusableOptimizedRow' = optimizedDone(resumed(sessions[i])).opt.scratch

NextIO == Next \/ ReadRejects \/ OptimizedChunk \/ OptimizedDone

SpecIO == InitIO /\ [][NextIO]_vars

\* ------------------------------------------------- sources that are exhausted
\* the sources of the sessions that are followed to their end
LiveSources ==
  IOByteStreams \cup
  { join(<<hUpper, hOpen>>) \o <<CR, LF>> \o shortLine \o <<LF>>,
    <<LF>> \o hDate \o <<LF>> \o lineWith(1, <<"x">>) }

\* one session of parseStreamWithStateMachine with callbacks that do not
\* throw, on a source whose reads do not reject
InitLive ==
  /\ \E t \in LiveSources : sessions = <<NewSession(t, "stream", 0)>>
  /\ reusableOptimizedRow = EmptyRow

NextLive == ProcessChunk \/ Finalize

\* a round of the read loop that changes the state is possible: the source
\* has bytes that it has not delivered (a round with no byte changes nothing)
canRead ==
  /\ sessions[1].entry = "stream"
  /\ sessions[1].pc = "reading"
  /\ sessions[1].pos < Len(sessions[1].text)

\* the source has delivered all its bytes and has not yet reported done
canEnd ==
  /\ sessions[1].entry = "stream"
  /\ sessions[1].pc = "reading"
  /\ sessions[1].pos = Len(sessions[1].text)

\* the source goes on delivering chunks that are not empty until it has
\* delivered all its bytes, and then reports done; the awaited read is then
\* resumed.  These are WF_vars(ProcessChunk) and WF_vars(Finalize) written
\* out, with canRead for ENABLED <<ProcessChunk>>_vars and canEnd for
\* ENABLED <<Finalize>>_vars.
SpecLive ==
  /\ InitLive
  /\ [][NextLive]_vars
  /\ ([]<>(~canRead) \/ []<><<ProcessChunk>>_vars)
  /\ ([]<>(~canEnd) \/ []<><<Finalize>>_vars)

\* ------------------------------------------------- the four parsers
\* return rows
simpleReturned(s) ==
  [s EXCEPT !.pc = "done", !.result = [kind |-> "returned", value |-> s.simple.rows]]

\* a call parseWithSimpleSplit(text, skipHeader)
simpleCall(s) ==
  simpleReturned([s EXCEPT !.simple = parseWithSimpleSplit(s.text, s.opt.skipHeader)])

ParseWithSimpleSplit ==
  /\ UNCHANGED reusableOptimizedRow
  /\ \E i \in DOMAIN sessions :
       /\ sessions[i].entry = "simple"
       /\ sessions[i].pc = "reading"
       /\ sessions' = [sessions EXCEPT ![i] = simpleCall(@)]

epochZeroLine == join(<<dEpoch, <<"0">>, <<"0">>, <<"0">>, <<"0">>, <<"0">>>>)

\* the header lines the texts begin with
HeaderLines == { hDate \o <<LF>>, join(<<hUpper, hOpen>>) \o <<CR, LF>> }

\* texts whose first line is a header, of up to two data lines, the last one
\* of any shape
ParserTexts ==
  { p \o b \o f : p \in HeaderLines, b \in LineSeqs(1),
                  f \in LastLines(BigLines \cup {epochZeroLine}) }

\* a call of each of the four parsers on each text, with callbacks that do
\* not throw; parseWithSimpleSplit and parseStreamOptimizedOhlcv with
\* skipHeader true and false
ParserStarts ==
  { NewSession(t, e, 0) :
      t \in ParserTexts, e \in {"stream", "full", "optimized", "simple"} }
    \cup { [NewSession(t, e, 0) EXCEPT !.opt = NewOptimized(FALSE, 0)] :
             t \in ParserTexts, e \in {"optimized", "simple"} }

InitParsers ==
  /\ \E s \in ParserStarts : sessions = <<s>>
  /\ reusableOptimizedRow = EmptyRow

NextParsers ==
  \/ ProcessChunk
  \/ Finalize
  \/ ParseFullString
  \/ OptimizedChunk
  \/ OptimizedDone
  \/ ParseWithSimpleSplit

SpecParsers == InitParsers /\ [][NextParsers]_vars

\* ------------------------------------------------- calls of yyyymmddToUnix
\* the year, month and day parts of the strings yyyymmddToUnix is called with
YearParts ==
  { <<"0", "0", "0", "0">>, <<"1", "9", "6", "9">>, <<"1", "9", "7", "0">>,
    <<"1", "9", "7", "2">>, <<"2", "0", "0", "0">>, <<"2", "0", "2", "3">>,
    <<"2", "0", "3", "6">> }

MonthParts ==
  { <<"0", "0">>, <<"0", "1">>, <<"0", "2">>, <<"0", "4">>, <<"0", "6">>,
    <<"0", "9">>, <<"1", "1">>, <<"1", "2">>, <<"1", "3">>, <<"9", "9">> }

DayParts ==
  { <<"0", "0">>, <<"0", "1">>, <<"2", "8">>, <<"2", "9">>, <<"3", "0">>,
    <<"3", "1">>, <<"3", "2">>, <<"9", "9">> }

\* strings of the shape of a date, and strings of other shapes
DateStrings ==
  { y \o <<"-">> \o m \o <<"-">> \o d : y \in YearParts, m \in MonthParts, d \in DayParts }
    \cup { dSlash, <<>>, <<"x">>, hDate,
           <<SP>> \o dOk, dOk \o <<SP>>, dOk \o <<LF>>, dOk \o <<"1">>,
           SubSeq(dOk, 1, 9), SubSeq(dOk, 2, 10),
           <<"2", "0", "2", "3", "0", "1", "0", "1">>,
           <<"2", "0", "2", "3", "-", "1", "-", "0", "1">>,
           <<"2", "0", "2", "3", "-", "0", "1", "-", "0", "x">>,
           <<"+", "0", "2", "3", "-", "0", "1", "-", "0", "1">>,
           <<"1", "9", "6", "9", "/", "1", "2", "/", "3", "1">>,
           <<"0", "1", "-", "0", "1", "-", "2", "0", "2", "3">> }

\* a call yyyymmddToUnix(s.text): it returns a number or throws
dateCall(s) ==
  IF yyyymmddToUnix(s.text).err = "none"
    THEN [s EXCEPT !.pc = "done",
                   !.result = [kind |-> "returned", value |-> yyyymmddToUnix(s.text).val]]
    ELSE [s EXCEPT !.pc = "failed",
                   !.result = [kind |-> "threw", value |-> yyyymmddToUnix(s.text).err]]

InitDate ==
  /\ \E d \in DateStrings : sessions = <<NewSession(d, "date", 0)>>
  /\ reusableOptimizedRow = EmptyRow

YyyymmddToUnix ==
  /\ UNCHANGED reusableOptimizedRow
  /\ \E i \in DOMAIN sessions :
       /\ sessions[i].entry = "date"
       /\ sessions[i].pc = "reading"
       /\ sessions' = [sessions EXCEPT ![i] = dateCall(@)]

SpecDate == InitDate /\ [][YyyymmddToUnix]_vars

\* ------------------------------------------------- fetch.ts
\* The values that are thrown: an instance of a class, with the fields of
\* HttpError (unset in other classes) and the class of its cause ("none"
\* when it has none).  "string" stands for a thrown value that is no Error.
Thrown(class) ==
  [class |-> class, statusCode |-> -1, statusText |-> "unset", cause |-> "none"]

isErrorInstance(e) == e.class # "string"

\* new HttpError(messagePrefix, statusCode, statusText)
HttpError(statusCode, statusText) ==
  [class |-> "HttpError", statusCode |-> statusCode, statusText |-> statusText,
   cause |-> "none"]

\* new FetchError(message, cause): cause is set when it is given
FetchError(cause) == [Thrown("FetchError") EXCEPT !.cause = cause]

\* new FetchError(message, error instanceof Error ? error : undefined)
FetchErrorOf(error) ==
  FetchError(IF isErrorInstance(error) THEN error.class ELSE "none")

\* the catch block of fetchCsvAsText that wraps every error
textCaughtWrapsAll(error) == FetchErrorOf(error)

\* the catch block of fetchCsvAsText: what it throws for the error caught
textCaught(error) ==
  IF error.class = "HttpError" THEN error ELSE FetchErrorOf(error)

\* the catch block of fetchCsvAsStream
streamCaught(error) ==
  IF error.class \in {"HttpError", "FetchError"} THEN error ELSE FetchErrorOf(error)

\* what the network gives: fetch() and response.text() may reject with an
\* Error or with a value that is no Error
Rejections == { Thrown("TypeError"), Thrown("DOMException"), Thrown("string") }

Statuses == { 0, 200, 204, 301, 404, 500 }
StatusTexts == { "", "OK", "Not Found" }

\* a Response: ok is true for the statuses 200 to 299; body is null or a
\* stream
Responses ==
  { [status |-> st, statusText |-> tx, ok |-> (st \in 200..299), bodyNull |-> b] :
      st \in Statuses, tx \in StatusTexts, b \in BOOLEAN }

NoResponse == [status |-> -1, statusText |-> "unset", ok |-> FALSE, bodyNull |-> TRUE]

\* A call of fetchCsvAsText (entry "fetchText") or fetchCsvAsStream (entry
\* "fetchStream"): its local response, what the awaited promise that
\* rejected gave (rejection), and its result.
NewFetch(e, url) ==
  [ entry |-> e,
    source |-> url,
    pc |-> "fetching",
    response |-> NoResponse,
    rejection |-> Thrown("none"),
    result |-> [kind |-> "pending", value |-> Thrown("none")] ]

fetchThrew(s, error) ==
  [s EXCEPT !.pc = "failed", !.result = [kind |-> "threw", value |-> error]]

fetchReturned(s, what) ==
  [s EXCEPT !.pc = "done", !.result = [kind |-> "returned", value |-> Thrown(what)]]

\* the catch block of the function of session s
fetchCaught(s, error) ==
  fetchThrew(s, IF s.entry = "fetchText" THEN textCaught(error) ELSE streamCaught(error))

\* await fetch(url) rejected with r
fetchRejected(s, r) == fetchCaught([s EXCEPT !.rejection = r], r)

\* the try block after await fetch(url) gave a response; fetchCsvAsText goes
\* on to await response.text()
fetchResolved(s) ==
  IF ~s.response.ok
    THEN fetchCaught(s, HttpError(s.response.status, s.response.statusText))
  ELSE IF s.entry = "fetchText" THEN [s EXCEPT !.pc = "readingText"]
  ELSE IF s.response.bodyNull THEN fetchCaught(s, FetchError("none"))
  ELSE fetchReturned(s, "body")

\* await response.text() rejected with r
textRejected(s, r) == fetchCaught([s EXCEPT !.rejection = r], r)

DataSources == { "BTC_CSV", "SP500_CSV", "ETH_CSV" }

InitFetch ==
  /\ \E e \in {"fetchText", "fetchStream"}, url \in DataSources :
       sessions = <<NewFetch(e, url)>>
  /\ reusableOptimizedRow = EmptyRow

\* await fetch(url) settles
FetchSettles ==
  /\ UNCHANGED reusableOptimizedRow
  /\ \E i \in DOMAIN sessions :
       /\ sessions[i].entry \in {"fetchText", "fetchStream"}
       /\ sessions[i].pc = "fetching"
       /\ \/ \E r \in Rejections :
               sessions' = [sessions EXCEPT ![i] = fetchRejected(@, r)]
          \/ \E resp \in Responses :
               sessions' = [sessions EXCEPT ![i] = fetchResolved([@ EXCEPT !.response = resp])]

\* await response.text() settles
TextSettles ==
  /\ UNCHANGED reusableOptimizedRow
  /\ \E i \in DOMAIN sessions :
       /\ sessions[i].entry = "fetchText"
       /\ sessions[i].pc = "readingText"
       /\ \/ \E r \in Rejections :
               sessions' = [sessions EXCEPT ![i] = textRejected(@, r)]
          \/ sessions' = [sessions EXCEPT ![i] = fetchReturned(@, "text")]

NextFetch == FetchSettles \/ TextSettles

SpecFetch == InitFetch /\ [][NextFetch]_vars

\* --------------------------------- calls that share reusableOptimizedRow
\* sources with rows of different values, a line whose date is refused (no
\* assignment), a line with a value that is no number (six assignments, no
\* row) and a last line without line feed
ScratchSources ==
  { hDate \o <<LF>> \o goodLine \o <<LF>> \o lineWith(0, dNext) \o <<LF>>,
    hDate \o <<LF>> \o lineWith(5, <<"7">>) \o <<LF>> \o lineWith(1, <<"x">>)
      \o <<LF>> \o lineWith(2, <<"5">>),
    hDate \o <<LF>> \o lineWith(3, <<"4">>) \o <<LF>> \o lineWith(0, dSlash) \o <<LF>> }

\* MaxSessions calls of parseStreamOptimizedOhlcv, each on one of the sources
InitScratch ==
  /\ sessions \in [1..MaxSessions -> { NewSession(t, "optimized", 0) : t \in ScratchSources }]
  /\ reusableOptimizedRow = EmptyRow

NextScratch == OptimizedChunk \/ OptimizedDone

SpecScratch == InitScratch /\ [][NextScratch]_vars

\* ------------------------------------------------- the text, line by line
\* (what the claims say about the input, computed from the text alone)

\* the 1-indexed physical line the n-th character of the text lies on; n is
\* Len(text) + 1 for calls made by finalize
lineOf(n) == 1 + Cardinality({ i \in 1..Len(text) : i < n /\ text[i] = LF })

numLines == lineOf(Len(text) + 1)

\* the characters of physical line L, without its line feed
lineChars(L) ==
  LET idx == { i \in 1..Len(text) : lineOf(i) = L /\ text[i] # LF }
  IN  IF idx = {} THEN <<>>
      ELSE SubSeq(text, CHOOSE i \in idx : \A j \in idx : i <= j,
                        CHOOSE i \in idx : \A j \in idx : j <= i)

\* line L is ended by a line feed
terminated(L) == L < numLines

\* the pieces of s between the occurrences of sep
RECURSIVE split(_, _)
split(s, sep) ==
  LET idx == { i \in 1..Len(s) : s[i] = sep }
  IN  IF idx = {} THEN <<s>>
      ELSE LET i == CHOOSE k \in idx : \A j \in idx : k <= j
           IN  <<SubSeq(s, 1, i - 1)>> \o split(SubSeq(s, i + 1, Len(s)), sep)

\* the comma-separated fields of a line, each without surrounding white space
RECURSIVE stripWhite(_)
stripWhite(s) ==
  IF s # <<>> /\ IsWhite(Head(s)) THEN stripWhite(Tail(s))
  ELSE IF s # <<>> /\ IsWhite(s[Len(s)]) THEN stripWhite(SubSeq(s, 1, Len(s) - 1))
  ELSE s

\* a text without its carriage returns
RECURSIVE withoutCR(_)
withoutCR(t) ==
  IF t = <<>> THEN <<>>
  ELSE IF Head(t) = CR THEN withoutCR(Tail(t))
  ELSE <<Head(t)>> \o withoutCR(Tail(t))

\* the fields of a line as the Core collects them: without carriage returns
\* and without surrounding white space
fieldsOf(l) ==
  LET fs == split(withoutCR(l), COMMA) IN [k \in 1..Len(fs) |-> stripWhite(fs[k])]

isBlank(l) == stripWhite(l) = <<>>

\* s is a decimal numeral: an optional sign, digits, an optional fraction
isNumeral(s) ==
  LET s1 == IF s # <<>> /\ Head(s) \in {"-", "+"} THEN Tail(s) ELSE s
      n  == digitRun(s1)
      r  == SubSeq(s1, n + 1, Len(s1))
  IN  \/ n > 0 /\ r = <<>>
      \/ r # <<>> /\ Head(r) = "." /\ digitRun(Tail(r)) = Len(r) - 1 /\ n + Len(r) > 1

\* the first line that holds a character other than CR and LF: the line the
\* Core reads as the header
firstLine ==
  IF \E L \in 1..numLines : lineChars(L) # <<>> /\ \E i \in 1..Len(lineChars(L)) : lineChars(L)[i] # CR
    THEN CHOOSE L \in 1..numLines :
           /\ \E i \in 1..Len(lineChars(L)) : lineChars(L)[i] # CR
           /\ \A K \in 1..(L - 1) : \A i \in 1..Len(lineChars(K)) : lineChars(K)[i] = CR
    ELSE 0

\* the text begins with a header line
hasHeader == firstLine > 0 /\ includesDate(fieldsOf(lineChars(firstLine))[1])

\* the lines after the header
dataLines == IF hasHeader THEN (firstLine + 1)..numLines ELSE {}

\* the record a line stands for
recordOf(l) ==
  LET f == fieldsOf(l)
  IN  [ ts |-> yyyymmddToUnix(f[1]).val, o |-> parseFloat(f[2]), h |-> parseFloat(f[3]),
        l |-> parseFloat(f[4]), c |-> parseFloat(f[5]), v |-> parseInt(f[6]) ]

\* a well-formed data line: six fields, a valid date, numerals that do not
\* all stand for zero
wellFormed(l) ==
  LET f == fieldsOf(l)
  IN  /\ Len(f) = 6
      /\ yyyymmddToUnix(f[1]).err = "none"
      /\ \A k \in 2..6 : isNumeral(f[k])
      /\ LET r == recordOf(l)
         IN  ~(r.o.val = 0 /\ r.h.val = 0 /\ r.l.val = 0 /\ r.c.val = 0 /\ r.v.val = 0)

\* the calls of the callbacks made while physical line L was processed
rowsAt(L) == { i \in 1..Len(parser.rows) : lineOf(parser.rowAt[i]) = L }
skipsAt(L) == { j \in 1..Len(parser.skips) : lineOf(parser.skipAt[j]) = L }

\* ------------------------------------------------------------------ claims

\* C1: chunk-boundary invariance: the rows, the skip notifications and the
\* total of a session that was fed the text in chunks, whatever the chunks
\* are, and then finalized are those of one processChunk call on the whole
\* text followed by finalize.
C1_ChunkInvariance ==
  pc = "done" =>
    LET whole == finalize(processChunk(NewCore, text))
    IN  /\ parser.rows = whole.rows
        /\ parser.skips = whole.skips
        /\ parser.totalRowsProcessed = whole.totalRowsProcessed

\* a stream session that is done, whose text was too long for one chunk, was
\* cut inside a field and between CR and LF, and produced rows and skips
C1_Witness ==
  /\ pc = "done" /\ entry = "stream"
  /\ Len(text) > 3 * (MaxChunk + 1)
  /\ \E i \in 1..(Len(text) - 1) : text[i] = CR /\ text[i + 1] = LF
  /\ parser.rows # <<>> /\ parser.skips # <<>>

\* C2: after a header line, every well-formed data line causes exactly one
\* row callback, with the timestamp of the date normalizer and the parsed
\* values of fields 1 to 5, and no skip notification.
C2_WellFormedLineEmitted ==
  pc = "done" =>
    \A L \in dataLines :
      wellFormed(lineChars(L)) =>
        /\ Cardinality(rowsAt(L)) = 1
        /\ \A i \in rowsAt(L) : parser.rows[i] = recordOf(lineChars(L))
        /\ skipsAt(L) = {}

C2_Witness ==
  /\ pc = "done"
  /\ \E L \in dataLines :
       /\ wellFormed(lineChars(L))
       /\ \E i \in rowsAt(L) : parser.rows[i].ts = 1672531200 /\ parser.rows[i].v = Num(10)

\* C3: no two skip notifications of a session carry the same line number.
C3_AtMostOneSkipPerLine ==
  \A i, j \in 1..Len(parser.skips) :
    i # j => parser.skips[i].lineNumber # parser.skips[j].lineNumber

\* C4: every line after the header that holds a character other than white
\* space and produces no record causes a skip notification for that line.
C4_NoSilentDrop ==
  pc = "done" =>
    \A L \in dataLines :
      ~isBlank(lineChars(L)) /\ rowsAt(L) = {} => skipsAt(L) # {}

\* C5: at most one row per physical line, no row for a line that has a skip
\* notification, and the rows come in increasing order of their lines.
C5_RowsExclusiveAndOrdered ==
  /\ \A i, j \in 1..Len(parser.rows) :
       i < j => lineOf(parser.rowAt[i]) < lineOf(parser.rowAt[j])
  /\ \A i \in 1..Len(parser.rows) : skipsAt(lineOf(parser.rowAt[i])) = {}

C5_Witness ==
  /\ Len(parser.rows) >= 2
  /\ parser.skips # <<>>
  /\ lineOf(parser.rowAt[1]) < lineOf(parser.skipAt[Len(parser.skips)])
  /\ lineOf(parser.skipAt[Len(parser.skips)]) < lineOf(parser.rowAt[2])

\* C6: header recovery: when the first field of the first non-blank line does
\* not contain "date", one InvalidFormatError notification tagged to the
\* timestamp field is issued and the line is then processed as a data row, so
\* that a first line that is a well-formed data row is emitted as a record.
C6_HeaderRecovery ==
  pc = "done" /\ firstLine > 0 /\ ~hasHeader =>
    /\ \E j \in skipsAt(firstLine) :
         /\ parser.skips[j].error = "InvalidFormatError"
         /\ parser.skips[j].invalidField = "timestamp"
    /\ wellFormed(lineChars(firstLine)) =>
         /\ Cardinality(skipsAt(firstLine)) = 1
         /\ \E i \in rowsAt(firstLine) : parser.rows[i] = recordOf(lineChars(firstLine))

\* the fields of a line the Core converts: the first six, as far as present
convertedFields(l) ==
  LET f == fieldsOf(l) IN SubSeq(f, 1, IF Len(f) < 6 THEN Len(f) ELSE 6)

\* the error of field k (0..5) of a line, "none" if the field converts
errorOfField(l, k) ==
  LET f == convertedFields(l)[k + 1]
  IN  IF k = 0 THEN yyyymmddToUnix(f).err
      ELSE IF k \in 1..4 THEN
        IF parseFloat(f).nan
          THEN CASE k = 1 -> "InvalidOpenError" [] k = 2 -> "InvalidHighError"
                 [] k = 3 -> "InvalidLowError" [] k = 4 -> "InvalidCloseError"
          ELSE "none"
      ELSE IF parseInt(f).nan THEN "InvalidVolumeError" ELSE "none"

\* the fields of a line that do not convert
badFields(l) ==
  { k \in 0..(Len(convertedFields(l)) - 1) : errorOfField(l, k) # "none" }

leftmostBad(l) == CHOOSE k \in badFields(l) : \A n \in badFields(l) : k <= n

\* C7: a line whose leftmost unconvertible field is field k yields no record
\* and exactly one skip notification, tagged with field k and of the error
\* kind of that field (stated for the lines that hold more than commas and
\* white space).
C7_OneTaggedSkip ==
  pc = "done" =>
    \A L \in 1..numLines :
      removeCommas(stripWhite(lineChars(L))) # <<>> /\ badFields(lineChars(L)) # {} =>
        /\ rowsAt(L) = {}
        /\ Cardinality(skipsAt(L)) = 1
        /\ \A j \in skipsAt(L) :
             /\ parser.skips[j].invalidField = fieldName(leftmostBad(lineChars(L)))
             /\ parser.skips[j].error = errorOfField(lineChars(L), leftmostBad(lineChars(L)))

\* the text does not end with a line feed
unterminatedText == text = <<>> \/ text[Len(text)] # LF

\* C8: finalize-flush: a text that does not end with a line feed yields the
\* same sequence of records as the text followed by one line feed.
C8_FinalizeFlush ==
  pc = "done" /\ unterminatedText =>
    parser.rows = finalize(processChunk(NewCore, text \o <<LF>>)).rows

\* a session whose last record was delivered by finalize
C8_Witness ==
  /\ pc = "done" /\ unterminatedText
  /\ parser.rows # <<>>
  /\ parser.rowAt[Len(parser.rowAt)] = Len(text) + 1

\* the text with the characters of line L removed (its line feed stays)
blanked(L) ==
  LET idx == { i \in 1..Len(text) : lineOf(i) = L /\ text[i] # LF }
  IN  IF idx = {} THEN text
      ELSE SubSeq(text, 1, (CHOOSE i \in idx : \A j \in idx : i <= j) - 1)
             \o SubSeq(text, (CHOOSE i \in idx : \A j \in idx : j <= i) + 1, Len(text))

\* the notifications of a machine for the lines other than L
skipsNotOf(m, L) ==
  LET keep == { j \in 1..Len(m.skips) : m.skips[j].lineNumber # L }
      RECURSIVE pick(_)
      pick(j) == IF j > Len(m.skips) THEN <<>>
                 ELSE (IF j \in keep THEN <<m.skips[j]>> ELSE <<>>) \o pick(j + 1)
  IN  pick(1)

\* C9: recovery skips exactly one line.  Right after the line feed of a data
\* line that has a skip notification the Core awaits a data row with an empty
\* field buffer, field index 0 and an empty partial record; and such a line
\* leaves the records and the notifications of all other lines as they are
\* when the line is blank.
C9_RecoverySkipsOneLine ==
  /\ ( /\ pc = "reading" /\ parser.fed > 0 /\ text[parser.fed] = LF
       /\ skipsAt(lineOf(parser.fed)) # {} )
       => /\ parser.state = WaitingForDataRowStart
          /\ parser.fieldBuffer = <<>>
          /\ parser.fieldIndex = 0
          /\ parser.currentRow = EmptyRow
  /\ pc = "done" /\ firstLine > 0 =>
       \A L \in (firstLine + 1)..(numLines - 1) :
         skipsAt(L) # {} =>
           LET w == finalize(processChunk(NewCore, blanked(L)))
           IN  /\ w.rows = parser.rows
               /\ w.skips = skipsNotOf(parser, L)

\* a skipped data line followed by a line that was emitted
C9_Witness ==
  /\ pc = "done" /\ firstLine > 0
  /\ \E L \in (firstLine + 1)..(numLines - 1) :
       /\ skipsAt(L) # {}
       /\ \E K \in (L + 1)..numLines : rowsAt(K) # {}

\* the number of comma-separated fields of a line
fieldCount(l) == Len(split(l, COMMA))

shapeError(l) ==
  IF badFields(l) # {}
    THEN [ error |-> errorOfField(l, leftmostBad(l)),
           message |-> IF leftmostBad(l) = 0 THEN "date" ELSE "invalid value" ]
  ELSE [ error |-> "InvalidFormatError",
         message |-> IF fieldCount(l) < 6 THEN "incorrect field count"
                                          ELSE "too many fields" ]

rowLines == IF firstLine > 0 THEN (firstLine + 1)..numLines ELSE {}

\* a line of six fields with a valid date whose five values are all zero
allZero(l) ==
  LET f == fieldsOf(l)
  IN  /\ Len(f) = 6
      /\ yyyymmddToUnix(f[1]).err = "none"
      /\ \A k \in 2..5 : parseFloat(f[k]) = Num(0)
      /\ parseInt(f[6]) = Num(0)

\* C11: a six-field data row with a valid date whose open, high, low, close
\* and volume are all zero causes no row callback, leaves the running total
\* equal to the number of row callbacks, and has exactly one skip
\* notification, an InvalidFormatError "all zero values".
C11_AllZeroRejected ==
  pc = "done" =>
    \A L \in rowLines :
      allZero(lineChars(L)) =>
        /\ rowsAt(L) = {}
        /\ parser.totalRowsProcessed = Len(parser.rows)
        /\ Cardinality(skipsAt(L)) = 1
        /\ \A j \in skipsAt(L) :
             /\ parser.skips[j].error = "InvalidFormatError"
             /\ parser.skips[j].message = "all zero values"
             /\ parser.skips[j].lineNumber = L

\* an all-zero row with its notification, in a session that also emitted a
\* record
C11_Witness ==
  /\ pc = "done"
  /\ \E L \in rowLines :
       /\ allZero(lineChars(L))
       /\ parser.rows # <<>>
       /\ \E j \in skipsAt(L) : parser.skips[j].message = "all zero values"

\* a line on which a validation of the Core fails: a field that does not
\* convert, a number of fields other than six, or values that are all zero
failsValidation(l) ==
  badFields(l) # {} \/ fieldCount(l) # 6 \/ allZero(l)

\* C12: with callbacks that do not throw, no exception leaves processChunk or
\* finalize and no session fails, whatever the text and the chunks are; every
\* character handed to processChunk is processed; a bad header and every
\* line-feed-ended row that fails a validation have a skip notification; and
\* every well-formed row is emitted, whatever failed before it.
C12_NeverRaises ==
  /\ parser.thrown = "none"
  /\ pc # "failed"
  /\ pc = "reading" => parser.fed = sessions[1].pos
  /\ pc = "done" =>
       /\ sessions[1].result.kind = "returned"
       /\ firstLine > 0 /\ ~hasHeader => skipsAt(firstLine) # {}
       /\ \A L \in rowLines :
            /\ ( /\ terminated(L)
                 /\ removeCommas(stripWhite(lineChars(L))) # <<>>
                 /\ failsValidation(lineChars(L)) ) => skipsAt(L) # {}
            /\ wellFormed(lineChars(L)) => rowsAt(L) # {}

\* a session that returned after a skip notification for a bad date or a bad
\* open value, and emitted a row for a line after a line that was skipped
C12_Witness ==
  /\ pc = "done"
  /\ sessions[1].result.kind = "returned"
  /\ \E L \in 1..numLines :
       /\ skipsAt(L) # {}
       /\ \E K \in (L + 1)..numLines : rowsAt(K) # {}
  /\ \E j \in 1..Len(parser.skips) :
       parser.skips[j].error \in {"InvalidDateFormatError", "InvalidOpenError"}

\* C13: the line number of every skip notification is the physical line the
\* Core was processing when it issued the notification: 1 plus the number of
\* line feeds before it in the whole text, whatever the chunks are; and a
\* line-feed-ended row that fails a validation is notified under its own
\* physical line number.
C13_PhysicalLineNumber ==
  /\ \A j \in 1..Len(parser.skips) :
       parser.skips[j].lineNumber = lineOf(parser.skipAt[j])
  /\ pc = "done" =>
       \A L \in rowLines :
         ( /\ terminated(L)
           /\ removeCommas(stripWhite(lineChars(L))) # <<>>
           /\ failsValidation(lineChars(L)) )
         => \E j \in 1..Len(parser.skips) :
              /\ parser.skips[j].lineNumber = L
              /\ parser.skips[j].lineNumber
                   = 1 + Cardinality({ i \in 1..(parser.skipAt[j] - 1) : text[i] = LF })

\* a stream session with a notification for a line that comes after a blank
\* line, the header line and a skipped line
C13_Witness ==
  /\ entry = "stream" /\ pc = "done"
  /\ hasHeader /\ firstLine = 2
  /\ Len(parser.skips) >= 2
  /\ parser.skips[1].lineNumber = 3
  /\ parser.skips[2].lineNumber = 5
  /\ rowsAt(4) # {}

\* C14: the line content of every skip notification for a line that is ended
\* by a line feed is the whole line, from its first character up to the line
\* feed, without its carriage returns.
C14_WholeLineContent ==
  pc = "done" =>
    \A j \in 1..Len(parser.skips) :
      terminated(parser.skips[j].lineNumber) =>
        parser.skips[j].lineContent = withoutCR(lineChars(parser.skips[j].lineNumber))

\* C15: a session of parseStreamWithStateMachine holds the lock of its reader
\* while it reads and has called releaseLock exactly once when it has left
\* the function, on every path: after it returned, after reader.read()
\* rejected and after a callback threw; and then the error has reached the
\* caller.
C15_LockReleased ==
  \A i \in DOMAIN sessions :
    LET s == sessions[i] IN
    s.entry = "stream" =>
      /\ s.pc = "reading" =>
           s.locked /\ s.releases = 0 /\ s.result.kind = "pending"
      /\ s.pc \in {"done", "failed"} => ~s.locked /\ s.releases = 1
      /\ s.pc = "done" => s.result.kind = "returned" /\ s.parser.thrown = "none"
      /\ s.pc = "failed" =>
           /\ s.result.kind = "threw"
           /\ s.result.value = IF s.parser.thrown # "none" THEN s.parser.thrown ELSE "read"
      /\ s.parser.thrown # "none" => s.pc = "failed"

\* one session left by an exception of its row callback, another by a
\* rejected read after it had processed a chunk, each with the lock released
C15_Witness ==
  \E i, j \in DOMAIN sessions :
    /\ sessions[i].pc = "failed" /\ sessions[i].result.value = "callback"
    /\ Len(sessions[i].parser.rows) = 1
    /\ sessions[i].releases = 1
    /\ sessions[j].pc = "failed" /\ sessions[j].result.value = "read"
    /\ sessions[j].pos > 0
    /\ sessions[j].releases = 1

\* the counter c of rows agrees with the calls rows of the row callback:
\* one count per call that returned
countsRows(c, rows, thrown) ==
  IF thrown = "none" THEN c = Len(rows) ELSE c \in {Len(rows) - 1, Len(rows)}

\* C16: in every session of a streaming entry point the counter of rows
\* (totalRowsProcessed, rowCount) is the number of row callbacks that
\* returned, at any time, and the number the session returns is the number of
\* times it called the row callback.
C16_ReturnsRowCount ==
  \A i \in DOMAIN sessions :
    LET s == sessions[i] IN
    /\ s.entry = "stream" =>
         /\ countsRows(s.parser.totalRowsProcessed, s.parser.rows, s.parser.thrown)
         /\ s.pc = "done" =>
              s.result = [kind |-> "returned", value |-> Len(s.parser.rows)]
    /\ s.entry = "optimized" =>
         /\ countsRows(s.opt.rowCount, s.opt.rows, s.opt.thrown)
         /\ s.pc = "done" =>
              s.result = [kind |-> "returned", value |-> Len(s.opt.rows)]

\* a session of each streaming entry point that returned 1 after one row and
\* one skip notification or more
C16_Witness ==
  \E i, j \in DOMAIN sessions :
    /\ sessions[i].entry = "stream" /\ sessions[i].pc = "done"
    /\ sessions[i].result.value = 1 /\ sessions[i].parser.skips # <<>>
    /\ sessions[j].entry = "optimized" /\ sessions[j].pc = "done"
    /\ sessions[j].result.value = 1 /\ Len(sessions[j].opt.skips) > 1

\* the Core after it was handed the characters decoded from the first n bytes
\* of the source of a session, in order
fedInOrder(s, n) ==
  processChunk([NewCore EXCEPT !.throwAt = s.parser.throwAt],
               decodeFrom(SubSeq(s.text, 1, n)).out)

\* the stream session s has handed to its Core the chunks read so far, in
\* order, and, when it has returned, after them the remainder of the decoder,
\* and has then called finalize once
chunksInOrder(s) ==
  /\ s.pc = "reading" =>
       /\ s.parser = fedInOrder(s, s.pos)
       /\ s.decoder = decodeFrom(SubSeq(s.text, 1, s.pos)).pending
  /\ s.pc = "done" =>
       /\ s.pos = Len(s.text)
       /\ s.parser = finalize(processChunk(fedInOrder(s, Len(s.text)),
                                           decodeFlush(decodeFrom(s.text).pending)))
       /\ s.result = [kind |-> "returned", value |-> s.parser.totalRowsProcessed]

\* C17: a session of parseStreamWithStateMachine whose source delivers
\* finitely many chunks and then reports done eventually returns; until then
\* its Core has been handed exactly the chunks read so far, in order; when it
\* has returned the Core has been handed all chunks, then the remainder of
\* the decoder, then finalize, once; and nothing is handed to the Core of a
\* session that has returned.
C17_ReturnsAfterFinalize ==
  /\ (sessions[1].entry = "stream") ~> (sessions[1].pc = "done")
  /\ [](sessions[1].entry = "stream" => chunksInOrder(sessions[1]))
  /\ [][sessions[1].pc = "done" => sessions[1]' = sessions[1]]_vars

\* a stream session that returned after the remainder of its decoder was
\* handed to the Core and reported by finalize
C17_Witness ==
  /\ entry = "stream" /\ pc = "done"
  /\ text[Len(text)] = LeadByte
  /\ parser.skips # <<>>
  /\ parser.skips[Len(parser.skips)].lineContent = <<Replacement>>
  /\ parser.rows # <<>>

\* ------------------------------------------------- C18
\* the record sequence and the sequence of skip notifications of a call of
\* parseFullStringWithStateMachine that has no call before it
fullAlone(t) ==
  [ rows |-> parseFullStringWithStateMachine(t).rows,
    skips |-> parseFullStringWithStateMachine(t).skips ]

\* what the finished call of session s returned and notified
fullGave(s) == [ rows |-> s.result.value, skips |-> s.parser.skips ]

endedAlone(s) ==
  finalize(processChunk(fedInOrder(s, Len(s.text)),
                        decodeFlush(decodeFrom(s.text).pending)))

\* the Core (rows, skip notifications with their line numbers, total) of a
\* session of parseStreamWithStateMachine that is alone and has come as far as
\* s: it has read s.pos bytes, and it has gone through the end of the
\* function when it has returned, or has failed by an exception of a
\* callback that the chunks did not raise
streamAlone(s) ==
  IF s.pc = "done" THEN endedAlone(s)
  ELSE IF s.pc = "failed" /\ s.result.value = "callback"
            /\ fedInOrder(s, s.pos).thrown = "none" THEN endedAlone(s)
  ELSE fedInOrder(s, s.pos)

\* C19: in every interleaving of the rounds of the read loops of the
\* sessions, a session of parseStreamWithStateMachine has delivered exactly
\* the rows, skip notifications, line numbers and total that it delivers
\* alone at the same point of its source, and a finished call of
\* parseFullStringWithStateMachine exactly those of a call that is alone.
C19_SessionsIndependent ==
  \A i \in DOMAIN sessions :
    /\ sessions[i].entry = "stream" =>
         /\ sessions[i].parser = streamAlone(sessions[i])
         /\ sessions[i].pc = "done" =>
              sessions[i].result.value = streamAlone(sessions[i]).totalRowsProcessed
    /\ (sessions[i].entry = "full" /\ sessions[i].pc = "done") =>
         sessions[i].parser = parseFullStringWithStateMachine(sessions[i].text)

\* a session of parseStreamWithStateMachine has returned with a row while
\* another, on another source, is in the middle of its source with a row
C19_Witness ==
  /\ Len(sessions) >= 2
  /\ sessions[1].entry = "stream" /\ sessions[2].entry = "stream"
  /\ sessions[1].text # sessions[2].text
  /\ sessions[2].pc = "done" /\ sessions[2].parser.rows # <<>>
  /\ sessions[1].pc = "reading"
  /\ sessions[1].pos > 0 /\ sessions[1].pos < Len(sessions[1].text)
  /\ sessions[1].parser.skips # <<>>

\* ------------------------------------------------- C20
\* the string is 4 digits, "-", 2 digits, "-", 2 digits
dateShaped(s) ==
  /\ Len(s) = 10
  /\ \A i \in 1..10 : IF i \in {5, 8} THEN s[i] = "-" ELSE s[i] \in Digits

numeralValue(s) == digitsValue(s)
yearOf(s) == numeralValue(SubSeq(s, 1, 4))
monthOf(s) == numeralValue(SubSeq(s, 6, 7))
dayOf(s) == numeralValue(SubSeq(s, 9, 10))

\* the last day of month mo of year y in the Gregorian calendar
lastDayOf(y, mo) ==
  IF mo = 2
    THEN (IF y % 400 = 0 \/ (y % 4 = 0 /\ y % 100 # 0) THEN 29 ELSE 28)
    ELSE IF mo \in {4, 6, 9, 11} THEN 30 ELSE 31

\* the outcome that the rules of the claim give a string, in their order
classOf(s) ==
  IF ~dateShaped(s) THEN "InvalidDateFormatError"
  ELSE IF yearOf(s) < 1970 THEN "DateBeforeEpochError"
  ELSE IF monthOf(s) \notin 1..12 \/ dayOf(s) \notin 1..31
            \/ dayOf(s) > lastDayOf(yearOf(s), monthOf(s)) THEN "InvalidDateFormatError"
  ELSE "succeeds"

\* what the finished call of yyyymmddToUnix of session s did
outcomeOf(s) == IF s.result.kind = "returned" THEN "succeeds" ELSE s.result.value

\* C20: every finished call of yyyymmddToUnix has the outcome of the rules:
\* InvalidDateFormatError for a string that is not 4 digits, "-", 2 digits,
\* "-", 2 digits; else DateBeforeEpochError for a year below 1970, whatever
\* month and day; else InvalidDateFormatError for a month outside 1..12, a day
\* outside 1..31 or a day the month does not have; else success.  The three
\* examples of the claim have the outcomes it names.
C20_DateClassification ==
  /\ \A i \in DOMAIN sessions :
       (sessions[i].entry = "date" /\ sessions[i].pc # "reading") =>
         outcomeOf(sessions[i]) = classOf(sessions[i].text)
  /\ classOf(dBefore) = "DateBeforeEpochError"
  /\ classOf(dFeb30) = "InvalidDateFormatError"
  /\ classOf(dSlash) = "InvalidDateFormatError"

\* yyyymmddToUnix has thrown DateBeforeEpochError for a string with a year
\* below 1970 and a month outside 1..12
C20_Witness ==
  /\ sessions[1].entry = "date"
  /\ sessions[1].pc = "failed"
  /\ sessions[1].result.value = "DateBeforeEpochError"
  /\ dateShaped(sessions[1].text)
  /\ monthOf(sessions[1].text) = 13
  /\ dayOf(sessions[1].text) = 29

\* ------------------------------------------------- C21
\* the leap years from year 1 to year n
leapYearsTo(n) == (n \div 4) - (n \div 100) + (n \div 400)

\* the days of the months that precede month mo in a year that is not leap
daysToMonth(mo) ==
  CASE mo = 1 -> 0 [] mo = 2 -> 31 [] mo = 3 -> 59 [] mo = 4 -> 90
    [] mo = 5 -> 120 [] mo = 6 -> 151 [] mo = 7 -> 181 [] mo = 8 -> 212
    [] mo = 9 -> 243 [] mo = 10 -> 273 [] mo = 11 -> 304 [] mo = 12 -> 334

\* the days from 1970-01-01 to day d of month mo of year y (y >= 1970) in
\* the Gregorian calendar
daysSinceEpoch(y, mo, d) ==
  365 * (y - 1970) + (leapYearsTo(y - 1) - leapYearsTo(1969))
    + daysToMonth(mo)
    + (IF mo > 2 /\ lastDayOf(y, 2) = 29 THEN 1 ELSE 0)
    + (d - 1)

daysOf(s) == daysSinceEpoch(yearOf(s), monthOf(s), dayOf(s))

\* the date of u is before the date of t
earlier(u, t) ==
  \/ yearOf(u) < yearOf(t)
  \/ yearOf(u) = yearOf(t) /\ monthOf(u) < monthOf(t)
  \/ yearOf(u) = yearOf(t) /\ monthOf(u) = monthOf(t) /\ dayOf(u) < dayOf(t)

\* C21: a call of yyyymmddToUnix that returned gave 86400 times the number
\* of days from 1970-01-01 to the date, which is not negative, a multiple of
\* 86400, and greater than what every earlier date gives; "1970-01-01" gives
\* 0 and "2023-01-01" gives 1672531200.
C21_SecondsSinceEpoch ==
  /\ \A i \in DOMAIN sessions :
       (sessions[i].entry = "date" /\ sessions[i].pc = "done") =>
         /\ sessions[i].result.value = 86400 * daysOf(sessions[i].text)
         /\ sessions[i].result.value >= 0
         /\ sessions[i].result.value % 86400 = 0
         /\ \A u \in DateStrings :
              (classOf(u) = "succeeds" /\ earlier(u, sessions[i].text)) =>
                yyyymmddToUnix(u).val < sessions[i].result.value
         /\ sessions[i].text = dEpoch => sessions[i].result.value = 0
         /\ sessions[i].text = dOk => sessions[i].result.value = 1672531200
  /\ yyyymmddToUnix(dEpoch) = [err |-> "none", val |-> 0]
  /\ yyyymmddToUnix(dOk) = [err |-> "none", val |-> 1672531200]

\* yyyymmddToUnix has returned 1672531200 for "2023-01-01"
C21_Witness ==
  /\ sessions[1].entry = "date"
  /\ sessions[1].pc = "done"
  /\ sessions[1].text = dOk
  /\ sessions[1].result = [kind |-> "returned", value |-> 1672531200]

\* ------------------------------------------------- C22
\* a line that parseWithSimpleSplit is documented to throw for: it is not
\* blank and has not six fields, or a date that is not valid, or a value that
\* is not a numeral
simpleBad(l) ==
  /\ ~isBlank(l)
  /\ \/ Len(fieldsOf(l)) # 6
     \/ yyyymmddToUnix(fieldsOf(l)[1]).err # "none"
     \/ \E k \in 2..6 : ~isNumeral(fieldsOf(l)[k])

\* the lines of the text that a call of parseWithSimpleSplit looks at
simpleLinesOf(s) == (IF s.opt.skipHeader THEN 2 ELSE 1)..numLines

\* C22: a finished call of parseWithSimpleSplit on a text with a line that
\* has the wrong number of fields or a field that cannot be parsed has thrown
\* an error to its caller.
C22_SimpleSplitThrows ==
  (sessions[1].entry = "simple" /\ sessions[1].pc # "reading"
     /\ \E L \in simpleLinesOf(sessions[1]) : simpleBad(lineChars(L)))
    => sessions[1].result.kind = "threw"

\* ------------------------------------------------- C23
\* the error that the claim gives a failed call s of fetchCsvAsText or
\* fetchCsvAsStream: an HttpError with the status of its response when the
\* response was not ok; a FetchError with the rejection as cause, when that
\* is an Error, after a rejected request or body read; a FetchError with no
\* cause for a null body
fetchErrorOf(s) ==
  IF s.rejection.class # "none"
    THEN [class |-> "FetchError", statusCode |-> -1, statusText |-> "unset",
          cause |-> IF s.rejection.class = "string" THEN "none" ELSE s.rejection.class]
  ELSE IF ~s.response.ok
    THEN [class |-> "HttpError", statusCode |-> s.response.status,
          statusText |-> s.response.statusText, cause |-> "none"]
  ELSE [class |-> "FetchError", statusCode |-> -1, statusText |-> "unset", cause |-> "none"]

\* C23: a call of fetchCsvAsText or fetchCsvAsStream that failed threw an
\* HttpError with the status code and status text of the response when the
\* response was not ok, and otherwise (request rejected, body read rejected,
\* null body of the stream variant) a FetchError whose cause is the
\* underlying Error when there is one; a call fails in no other case and
\* with no other class of error.
C23_FetchErrors ==
  \A i \in DOMAIN sessions :
    sessions[i].entry \in {"fetchText", "fetchStream"} =>
      /\ sessions[i].pc = "failed" =>
           /\ sessions[i].result.kind = "threw"
           /\ sessions[i].result.value.class \in {"HttpError", "FetchError"}
           /\ sessions[i].result.value = fetchErrorOf(sessions[i])
           /\ \/ sessions[i].rejection.class # "none"
              \/ ~sessions[i].response.ok
              \/ sessions[i].entry = "fetchStream" /\ sessions[i].response.bodyNull
      /\ sessions[i].pc = "done" =>
           /\ sessions[i].response.ok
           /\ sessions[i].rejection.class = "none"
           /\ sessions[i].entry = "fetchStream" => ~sessions[i].response.bodyNull

\* fetchCsvAsText has thrown an HttpError for a response with status 404
C23_Witness ==
  /\ sessions[1].entry = "fetchText"
  /\ sessions[1].pc = "failed"
  /\ sessions[1].response.status = 404
  /\ sessions[1].result.value = [class |-> "HttpError", statusCode |-> 404,
                                 statusText |-> "Not Found", cause |-> "none"]

\* ------------------------------------------------- C24
\* the values of a record, all in units of 10^-FracDigits; the volume of a
\* record of the Core is a whole number (parseInt), the other numbers are
\* in those units already
valuesOf(r, volumeUnit) ==
  <<r.ts, r.o.val, r.h.val, r.l.val, r.c.val, r.v.val * volumeUnit>>

coreRecords(rows) == [k \in 1..Len(rows) |-> valuesOf(rows[k], Pow10(FracDigits))]
otherRecords(rows) == [k \in 1..Len(rows) |-> valuesOf(rows[k], 1)]

\* the records that the finished call of session s has emitted
emittedBy(s) ==
  CASE s.entry \in {"stream", "full"} -> coreRecords(s.parser.rows)
    [] s.entry = "optimized" -> otherRecords(s.opt.rows)
    [] s.entry = "simple" -> otherRecords(s.simple.rows)

\* C24: on a text whose first line is a header, a finished call of
\* parseWithSimpleSplit (skipHeader = true), parseFullStringWithStateMachine,
\* parseStreamWithStateMachine or parseStreamOptimizedOhlcv (skipHeader =
\* true) has emitted the records that parseFullStringWithStateMachine emits
\* on that text, in the same order.
C24_ParsersInterchangeable ==
  \A i \in DOMAIN sessions :
    (/\ sessions[i].entry \in {"stream", "full", "optimized", "simple"}
     /\ sessions[i].pc = "done"
     /\ sessions[i].entry \in {"optimized", "simple"} => sessions[i].opt.skipHeader)
      => emittedBy(sessions[i])
           = coreRecords(parseFullStringWithStateMachine(sessions[i].text).rows)

\* ------------------------------------------------- C25
\* open, high, low, close and volume of the record are all zero
allValuesZero(r) ==
  r.o.val = 0 /\ r.h.val = 0 /\ r.l.val = 0 /\ r.c.val = 0 /\ r.v.val = 0

\* C25: no record that parseWithSimpleSplit or parseStreamOptimizedOhlcv has
\* emitted has open, high, low, close and volume all zero, whatever its
\* timestamp.
C25_NoAllZeroRecord ==
  \A i \in DOMAIN sessions :
    /\ sessions[i].entry = "simple" =>
         \A k \in DOMAIN sessions[i].simple.rows : ~allValuesZero(sessions[i].simple.rows[k])
    /\ sessions[i].entry = "optimized" =>
         \A k \in DOMAIN sessions[i].opt.rows : ~allValuesZero(sessions[i].opt.rows[k])

\* ------------------------------------------------- C26
\* the kinds, line numbers and line contents of skip notifications
noticesOf(skips) ==
  [k \in 1..Len(skips) |-> [ error |-> skips[k].error,
                             lineNumber |-> skips[k].lineNumber,
                             lineContent |-> skips[k].lineContent ]]

\* C26: a finished call of parseFullStringWithStateMachine on a text that
\* does not end with a line feed has issued the skip notifications (kinds,
\* line numbers, line contents) that a call on the text followed by one line
\* feed issues.
C26_FinalizeAsLineFeed ==
  (entry = "full" /\ pc = "done" /\ text # <<>> /\ text[Len(text)] # LF)
    => noticesOf(parser.skips)
         = noticesOf(parseFullStringWithStateMachine(text \o <<LF>>).skips)

\* ------------------------------------------------- C27
\* the Core after all of the text and before finalize
beforeFinalize == processChunk(NewCore, text)

\* the text has ended without a line feed while the Core was skipping a
\* line of which it has consumed a character
endsWhileSkipping ==
  /\ unterminatedText
  /\ beforeFinalize.state = SkippingLineDueToError
  /\ withoutCR(lineChars(numLines)) # <<>>

\* C27: when the text has ended without a line feed while the Core was
\* skipping a line of which it has consumed a character, the finished parse
\* has made, after the calls made before finalize, one call of the skip
\* callback, with ParseError "Incomplete errored line at EOF", the number of
\* the last line and its text, and no call of the row callback.
C27_IncompleteLineAtEof ==
  (pc = "done" /\ endsWhileSkipping) =>
    /\ parser.skips
         = Append(beforeFinalize.skips,
                  [ error |-> "ParseError",
                    message |-> "Incomplete errored line at EOF",
                    lineNumber |-> numLines,
                    lineContent |-> withoutCR(lineChars(numLines)),
                    invalidField |-> "nodetails" ])
    /\ parser.rows = beforeFinalize.rows

\* a parse has finished with a record and, last, the notification of the
\* incomplete line that was being skipped at the end of a stream
C27_Witness ==
  /\ entry = "stream" /\ pc = "done"
  /\ endsWhileSkipping
  /\ parser.rows # <<>>
  /\ parser.skips[Len(parser.skips)].message = "Incomplete errored line at EOF"
  /\ parser.skips[Len(parser.skips)].lineNumber > 2

\* ------------------------------------------------- C28
\* a line that holds no character other than carriage returns
crOnly(l) == \A i \in 1..Len(l) : l[i] = CR

\* the number of characters of the text up to the line feed of line L
\* (0 for L = 0)
endOfLine(L) ==
  IF L = 0 THEN 0 ELSE CHOOSE i \in 1..Len(text) : text[i] = LF /\ lineOf(i) = L

\* the state in which the Core awaits the first character of line L
awaitingAt(L) ==
  IF \E K \in 1..(L - 1) : ~crOnly(lineChars(K))
    THEN WaitingForDataRowStart
    ELSE WaitingForHeaderStart

\* C28: a line ended by a line feed that holds nothing but carriage returns
\* causes no row callback and no skip notification, wherever it is in the
\* text; the Core is in the same state after its line feed as before its
\* first character, WaitingForHeaderStart or WaitingForDataRowStart, and its
\* line counter is greater by one.
C28_BlankLinesCounted ==
  \A L \in 1..(numLines - 1) :
    crOnly(lineChars(L)) =>
      /\ rowsAt(L) = {}
      /\ skipsAt(L) = {}
      /\ (entry = "stream" /\ pc = "reading" /\ parser.fed = endOfLine(L - 1)) =>
           /\ parser.state = awaitingAt(L)
           /\ parser.currentLineNumber = L
      /\ (entry = "stream" /\ pc = "reading" /\ parser.fed = endOfLine(L)) =>
           /\ parser.state = awaitingAt(L)
           /\ parser.currentLineNumber = L + 1

\* a stream session has just consumed a blank line between two data lines,
\* of which the first gave a record, and another before the header
C28_Witness ==
  /\ entry = "stream" /\ pc = "reading"
  /\ \E L \in 3..(numLines - 1) :
       /\ crOnly(lineChars(L))
       /\ parser.fed = endOfLine(L)
       /\ rowsAt(L - 1) # {}
       /\ parser.state = WaitingForDataRowStart
       /\ parser.currentLineNumber = L + 1
  /\ text[1] = LF

\* ------------------------------------------------- C29
\* a line that consists of commas and white space only
noiseLine(l) == \A i \in 1..Len(l) : l[i] = COMMA \/ IsWhite(l[i])

\* C29: a data line that consists only of commas and white space causes no
\* skip notification and no record.
C29_NoiseSuppressed ==
  pc = "done" =>
    \A L \in dataLines :
      noiseLine(lineChars(L)) => (skipsAt(L) = {} /\ rowsAt(L) = {})

\* ------------------------------------------------- C30
\* the letters d, a, t, e follow each other in the field, in any case
spellsDate(f) ==
  \E i \in 1..(Len(f) - 3) :
    /\ f[i] \in {"d", "D"} /\ f[i + 1] \in {"a", "A"}
    /\ f[i + 2] \in {"t", "T"} /\ f[i + 3] \in {"e", "E"}

\* the position of the first character of the text that is no carriage
\* return and no line feed (0 when there is none): the first character of
\* the first line that is not blank
firstCharAt ==
  IF \A i \in 1..Len(text) : text[i] \in {CR, LF} THEN 0
  ELSE CHOOSE i \in 1..Len(text) :
         text[i] \notin {CR, LF} /\ \A j \in 1..(i - 1) : text[j] \in {CR, LF}

\* the position of the first of the characters cs from position n on; one
\* past the end of the text when there is none
nextAt(n, cs) ==
  IF \A i \in n..Len(text) : text[i] \notin cs THEN Len(text) + 1
  ELSE CHOOSE i \in n..Len(text) :
         text[i] \in cs /\ \A j \in n..(i - 1) : text[j] \notin cs

\* the first field of the first line that is not blank contains "date"
headerFirst ==
  /\ firstCharAt > 0
  /\ spellsDate(SubSeq(text, firstCharAt, nextAt(firstCharAt, {COMMA, LF}) - 1))

\* the number of the header line, and the position of its line feed (one past
\* the end of the text when it has none)
headerLine == lineOf(firstCharAt)
headerEnd == nextAt(firstCharAt, {LF})

HeaderStates == {WaitingForHeaderStart, ProcessingHeader}

\* line L has six fields of which the first is "Date"
dateRow(L) ==
  Len(fieldsOf(lineChars(L))) = 6 /\ fieldsOf(lineChars(L))[1] = hDate

\* C30: when the first field of the first non-blank line contains "date" in
\* any letter case, that line causes no row callback and no skip
\* notification, whatever the number of its fields, and the Core is in
\* WaitingForDataRowStart after its line feed; a later line whose first
\* field is "Date" is processed as a data row (it is notified as a row with
\* an invalid date); and a Core that has left the header states never is in
\* one of them again.
C30_HeaderOnce ==
  /\ [](headerFirst =>
          /\ \A i \in DOMAIN parser.rows : lineOf(parser.rowAt[i]) # headerLine
          /\ \A j \in DOMAIN parser.skips : lineOf(parser.skipAt[j]) # headerLine
          /\ (entry = "stream" /\ pc = "reading" /\ parser.fed = headerEnd)
               => parser.state = WaitingForDataRowStart
          /\ (pc = "done" /\ headerEnd <= Len(text))
               => parser.state \notin HeaderStates
          /\ pc = "done" =>
               \A L \in (headerLine + 1)..numLines :
                 dateRow(L) =>
                   /\ rowsAt(L) = {}
                   /\ \E j \in skipsAt(L) :
                        /\ parser.skips[j].error = "InvalidDateFormatError"
                        /\ parser.skips[j].invalidField = "timestamp")
  /\ [][parser.state \notin HeaderStates => parser'.state \notin HeaderStates]_vars

\* a finished stream session whose header line had two fields in capital
\* letters and caused no notification, and which has notified a later line
\* that begins with "Date" as a row with an invalid date
C30_Witness ==
  /\ entry = "stream" /\ pc = "done"
  /\ headerFirst
  /\ SubSeq(text, firstCharAt, headerEnd - 1) = join(<<hUpper, hOpen>>) \o <<CR>>
  /\ parser.state = WaitingForDataRowStart
  /\ \E L \in (headerLine + 1)..numLines :
       /\ dateRow(L)
       /\ \E j \in skipsAt(L) : parser.skips[j].error = "InvalidDateFormatError"
  /\ \A j \in DOMAIN parser.skips : lineOf(parser.skipAt[j]) # headerLine

\* C31: carriage returns are ignored in every state: the rows, the skip
\* notifications (kind, line number, line content, field tag) and the total
\* of a finished session are those of the Core run on the text with all its
\* carriage returns deleted, and the line counter has advanced by the number
\* of line feeds only.
C31_CarriageReturnsIgnored ==
  pc = "done" =>
    LET bare == finalize(processChunk(NewCore, withoutCR(text)))
    IN  /\ parser.rows = bare.rows
        /\ parser.skips = bare.skips
        /\ parser.totalRowsProcessed = bare.totalRowsProcessed
        /\ parser.currentLineNumber = numLines

\* a finished session whose text has a carriage return inside a number and a
\* CRLF line ending, and which emitted the number read across the carriage
\* return
C31_Witness ==
  /\ pc = "done"
  /\ \E i \in 2..(Len(text) - 1) :
       text[i] = CR /\ text[i - 1] \in Digits /\ text[i + 1] \in Digits
  /\ \E i \in 1..(Len(text) - 1) : text[i] = CR /\ text[i + 1] = LF
  /\ \E i \in DOMAIN parser.rows : parser.rows[i].v = Num(10)

\* C32: a data line with seven or more fields whose first six fields convert
\* yields no record and exactly one skip notification, InvalidFormatError
\* "Too many fields" without a field tag; and the field index of a data row
\* never exceeds 6.
C32_TooManyFields ==
  /\ pc = "done" =>
       \A L \in dataLines :
         LET l == lineChars(L) IN
         fieldCount(l) >= 7 /\ badFields(l) = {} =>
           /\ rowsAt(L) = {}
           /\ Cardinality(skipsAt(L)) = 1
           /\ \A j \in skipsAt(L) :
                /\ parser.skips[j].error = "InvalidFormatError"
                /\ parser.skips[j].message = "too many fields"
                /\ parser.skips[j].invalidField = "undefined"
  /\ parser.state \in {ProcessingField, SkippingLineDueToError} => parser.fieldIndex <= 6

\* the first calls of a sequence of callback calls: those made for one of the
\* first n characters (at[i] is the character the i-th call was made for)
upTo(calls, at, n) ==
  SubSeq(calls, 1, Cardinality({ i \in DOMAIN calls : at[i] <= n }))

\* the calls of the callbacks made so far are those the Core whole makes for
\* the first n characters
deliveredUpTo(whole, n) ==
  /\ parser.rows = upTo(whole.rows, whole.rowAt, n)
  /\ parser.skips = upTo(whole.skips, whole.skipAt, n)

\* C33: incremental delivery.  Whenever a session of
\* parseStreamWithStateMachine stands at reader.read(), every row callback
\* and skip callback caused by the characters read so far has been made:
\* the calls made are exactly the calls the Core makes for the characters of
\* the text up to the last one read.  And the calls made in one round of the
\* read loop are those caused by the characters of the chunk of that round.
C33_IncrementalDelivery ==
  /\ [](entry = "stream" /\ pc = "reading" =>
          deliveredUpTo(processChunk(NewCore, text), sessions[1].pos))
  /\ [][entry = "stream" /\ pc = "reading" /\ pc' = "reading" =>
          /\ \A i \in (Len(parser.rows) + 1)..Len(parser'.rows) :
               /\ parser'.rowAt[i] > sessions[1].pos
               /\ parser'.rowAt[i] <= sessions'[1].pos
          /\ \A j \in (Len(parser.skips) + 1)..Len(parser'.skips) :
               /\ parser'.skipAt[j] > sessions[1].pos
               /\ parser'.skipAt[j] <= sessions'[1].pos]_vars

\* a session that stands at reader.read() in the middle of a line, with text
\* left to read, after a row and a skip notification have been delivered for
\* lines that arrived in several chunks
C33_Witness ==
  /\ entry = "stream" /\ pc = "reading"
  /\ sessions[1].pos < Len(text)
  /\ parser.state = ProcessingField
  /\ parser.rows # <<>> /\ parser.skips # <<>>
  /\ parser.currentLineNumber = 4

\* C34: every record emitted by a finished call of any of the parsers has an
\* integer volume (the values are counted in units of 10^-FracDigits).
C34_IntegerVolume ==
  \A i \in DOMAIN sessions :
    (sessions[i].entry \in {"stream", "full", "optimized", "simple"}
       /\ sessions[i].pc = "done")
      => \A k \in DOMAIN emittedBy(sessions[i]) :
           emittedBy(sessions[i])[k][6] % Pow10(FracDigits) = 0

\* the characters of the current line that the Core has been handed, without
\* carriage returns: those after the last line feed handed to it
currentLineHanded ==
  LET n == IF parser.fed > Len(text) THEN Len(text) ELSE parser.fed
      lfs == { i \in 1..n : text[i] = LF }
      start == IF lfs = {} THEN 0 ELSE CHOOSE i \in lfs : \A j \in lfs : j <= i
  IN  withoutCR(SubSeq(text, start + 1, n))

isPrefixOf(a, b) == Len(a) <= Len(b) /\ a = SubSeq(b, 1, Len(a))
isSuffixOf(a, b) == Len(a) <= Len(b) /\ a = SubSeq(b, Len(b) - Len(a) + 1, Len(b))

\* C35: whenever the Core is in WaitingForHeaderStart or
\* WaitingForDataRowStart, its field buffer is empty, its field index is 0,
\* its partial record has no field set and its stored line content is
\* empty; and in every state the stored line content is made of the first
\* characters of the current line and the field buffer of the last
\* characters of the stored line content.
C35_BoundedRetainedState ==
  /\ parser.state \in {WaitingForHeaderStart, WaitingForDataRowStart} =>
       /\ parser.fieldBuffer = <<>>
       /\ parser.fieldIndex = 0
       /\ parser.currentRow = EmptyRow
       /\ parser.currentLineContentForError = <<>>
  /\ isPrefixOf(parser.currentLineContentForError, currentLineHanded)
  /\ isSuffixOf(parser.fieldBuffer, parser.currentLineContentForError)

\* a stream session that stands right after the line feed of its third line,
\* in WaitingForDataRowStart, after a row and a skip notification
C35_Witness ==
  /\ entry = "stream" /\ pc = "reading"
  /\ parser.state = WaitingForDataRowStart
  /\ parser.fed > 0 /\ text[parser.fed] = LF
  /\ parser.currentLineNumber = 4
  /\ parser.rows # <<>> /\ parser.skips # <<>>
  /\ parser.fieldBuffer = <<>> /\ parser.currentRow = EmptyRow

\* C36: no skip notification carries the message "State machine error -
\* processFieldEnd in unexpected state" or "processRowEnd in unexpected
\* state".
C36_NoUnexpectedState ==
  \A j \in DOMAIN parser.skips :
    parser.skips[j].message \notin { "processFieldEnd in unexpected state",
                                     "processRowEnd in unexpected state" }

\* the content that the object handed to the i-th call of the row callback
\* has now
objectOfRow(i) ==
  IF parser.rowRefs[i] = Len(parser.retired) + 1
    THEN parser.currentRow
    ELSE parser.retired[parser.rowRefs[i]]

\* a partial record holds the six values of a record
holds(p, r) ==
  /\ p.ts = <<r.ts>> /\ p.o = <<r.o>> /\ p.h = <<r.h>>
  /\ p.l = <<r.l>> /\ p.c = <<r.c>> /\ p.v = <<r.v>>

\* C37: a record handed to the row callback is never changed afterwards:
\* in every state the object handed to each call of the row callback holds
\* the six values it held when it was handed over, every call was handed an
\* object of its own, and the Core's partial record is none of them; and
\* the rows parseFullStringWithStateMachine returns are those objects.
C37_EmittedRowsKept ==
  /\ \A i \in DOMAIN parser.rows :
       /\ holds(objectOfRow(i), parser.rows[i])
       /\ parser.rowRefs[i] <= Len(parser.retired)
       /\ \A k \in DOMAIN parser.rows : k # i => parser.rowRefs[k] # parser.rowRefs[i]
  /\ (entry = "full" /\ pc = "done") =>
       /\ Len(sessions[1].result.value) = Len(parser.rows)
       /\ \A i \in DOMAIN parser.rows :
            holds(objectOfRow(i), sessions[1].result.value[i])

\* a finished call of parseFullStringWithStateMachine that returned a row of
\* line 2 after it had parsed and skipped a later line and finalized
C37_Witness ==
  /\ entry = "full" /\ pc = "done"
  /\ Len(parser.rows) >= 1
  /\ lineOf(parser.rowAt[1]) = 2
  /\ \E j \in DOMAIN parser.skips : parser.skipAt[j] > parser.rowAt[1]
  /\ Len(parser.retired) > parser.rowRefs[1] + 1
  /\ holds(parser.retired[parser.rowRefs[1]], sessions[1].result.value[1])

\* parseStreamOptimizedOhlcv on a source of complete characters that arrives
\* in one chunk
optimizedWhole(t, skipHeader) ==
  optimizedEnd(optimizedChunk(NewOptimized(skipHeader, 0), t), <<>>)

\* the skip notifications without their messages: kind, line number and
\* line content
kindsOf(skips) ==
  [j \in DOMAIN skips |-> [ error |-> skips[j].error,
                            lineNumber |-> skips[j].lineNumber,
                            lineContent |-> skips[j].lineContent ]]

\* C38: parseStreamOptimizedOhlcv is chunk-boundary invariant: the rows, the
\* skip notifications with their line numbers and the returned row count of
\* a finished call, for both values of skipHeader and however the text was
\* cut into chunks, are those of the text arriving in one chunk; and a text
\* whose last line has no line feed gives the rows, the row count and the
\* skip notifications (kind, line number, line content) of the same text
\* ended by a line feed.
C38_OptimizedChunkInvariance ==
  \A i \in DOMAIN sessions :
    (sessions[i].entry = "optimized" /\ sessions[i].pc = "done") =>
      /\ sessions[i].opt.rows
           = optimizedWhole(sessions[i].text, sessions[i].opt.skipHeader).rows
      /\ sessions[i].opt.skips
           = optimizedWhole(sessions[i].text, sessions[i].opt.skipHeader).skips
      /\ sessions[i].result.value
           = optimizedWhole(sessions[i].text, sessions[i].opt.skipHeader).rowCount
      /\ sessions[i].opt.rows
           = optimizedWhole(sessions[i].text \o <<LF>>, sessions[i].opt.skipHeader).rows
      /\ kindsOf(sessions[i].opt.skips)
           = kindsOf(optimizedWhole(sessions[i].text \o <<LF>>,
                                    sessions[i].opt.skipHeader).skips)
      /\ sessions[i].result.value
           = optimizedWhole(sessions[i].text \o <<LF>>, sessions[i].opt.skipHeader).rowCount

\* a finished call on a text too long for one chunk, with a CRLF line ending
\* and a last line without a line feed, which emitted a row and notified
\* that last line
C38_Witness ==
  /\ sessions[1].entry = "optimized" /\ sessions[1].pc = "done"
  /\ Len(sessions[1].text) > 3 * (MaxChunk + 1)
  /\ sessions[1].text[Len(sessions[1].text)] # LF
  /\ \E k \in 1..(Len(sessions[1].text) - 1) :
       sessions[1].text[k] = CR /\ sessions[1].text[k + 1] = LF
  /\ sessions[1].opt.rows # <<>>
  /\ \E j \in DOMAIN sessions[1].opt.skips :
       sessions[1].opt.skips[j].message = "Last line did not match optimized OHLCV format"
  /\ sessions[1].result.value = Len(sessions[1].opt.rows)

\* the content that the object handed to the k-th call of the row callback of
\* session s has now
optimizedObjectOfRow(s, k) ==
  IF s.opt.rowRefs[k] = "scratch" THEN reusableOptimizedRow
  ELSE [ ts |-> <<s.opt.rows[k].ts>>, o |-> <<s.opt.rows[k].o>>,
         h |-> <<s.opt.rows[k].h>>, l |-> <<s.opt.rows[k].l>>,
         c |-> <<s.opt.rows[k].c>>, v |-> <<s.opt.rows[k].v>> ]

\* the record that the fields of a line stand for, converted as the
\* optimized parser converts them
optimizedRecordOf(l) ==
  [ ts |-> yyyymmddToUnix(split(l, COMMA)[1]).val,
    o |-> toNumber(split(l, COMMA)[2]), h |-> toNumber(split(l, COMMA)[3]),
    l |-> toNumber(split(l, COMMA)[4]), c |-> toNumber(split(l, COMMA)[5]),
    v |-> toNumber(split(l, COMMA)[6]) ]

\* the record r holds the values of one of the lines, a line of six fields
ofOneLine(r, lines) ==
  \E n \in DOMAIN lines :
    Len(split(lines[n], COMMA)) = 6 /\ r = optimizedRecordOf(lines[n])


\* C39: the scratch row shared by the calls of parseStreamOptimizedOhlcv
\* causes no interference.  However the rounds of the read loops of the
\* calls are interleaved, every row a call has emitted holds the six values
\* of one line of the call's own source, the rows of a finished call are the
\* rows of that call running alone, and the object handed to the row
\* callback still holds the values it was handed over with, whatever either
\* call has parsed since.
C39_ScratchRowNoInterference ==
  \A i \in DOMAIN sessions :
    /\ \A k \in DOMAIN sessions[i].opt.rows :
         /\ ofOneLine(sessions[i].opt.rows[k], split(sessions[i].text, LF))
         /\ holds(optimizedObjectOfRow(sessions[i], k), sessions[i].opt.rows[k])
    /\ sessions[i].pc = "done" =>
         sessions[i].opt.rows
           = optimizedWhole(sessions[i].text, sessions[i].opt.skipHeader).rows

\* two calls on different sources, both suspended at reader.read() with
\* input left after each has emitted a row, when reusableOptimizedRow holds
\* the values of the row the second call emitted last and the first call
\* has emitted a row of other values
C39_Witness ==
  /\ Len(sessions) = 2
  /\ sessions[1].text # sessions[2].text
  /\ \A i \in {1, 2} :
       /\ sessions[i].entry = "optimized" /\ sessions[i].pc = "reading"
       /\ sessions[i].pos < Len(sessions[i].text)
       /\ sessions[i].opt.rows # <<>>
  /\ holds(reusableOptimizedRow, sessions[2].opt.rows[Len(sessions[2].opt.rows)])
  /\ ~holds(reusableOptimizedRow, sessions[1].opt.rows[Len(sessions[1].opt.rows)])
====
